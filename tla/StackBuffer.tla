---------------------------- MODULE StackBuffer ----------------------------
(***************************************************************************)
(* StackBuffer of src/buffer.rs: an array with a read and a write position *)
(* between which the unread bytes lie.  The operations are operators that  *)
(* return the new buffer.  A byte that has been read is overwritten before *)
(* anybody looks at it again; add_bytes_read and reset mark such bytes     *)
(* Unused, everything else moves them around as the code does.             *)
(***************************************************************************)
EXTENDS Integers, Sequences

CONSTANTS
    BufferSize,     \* N, the length of the array
    Unused          \* the content of a cell whose byte was read

ASSUME BufferAssumption == BufferSize \in Nat \ {0}

Cells == 1 .. BufferSize

EmptyBuffer == [data |-> [k \in Cells |-> Unused], read |-> 0, write |-> 0]

Buffers(Byte) ==
    {b \in [data : [Cells -> Byte \cup {Unused}], read : 0 .. BufferSize,
            write : 0 .. BufferSize] : b.read <= b.write}

reaable_data(b) == SubSeq(b.data, b.read + 1, b.write)
has_remaining_len(b) == b.read < b.write
is_max_capacity(b) == b.write = 0

\* mutant: a full array counts although bytes of it were read
is_max_len_ignoring_read(b) == b.write = BufferSize

is_max_len(b) == b.read = 0 /\ b.write = BufferSize

rotate_left(data, n) == [k \in Cells |-> data[((k - 1 + n) % BufferSize) + 1]]

flip(b) ==
    IF b.read > 0
      THEN [data |-> rotate_left(b.data, b.read), read |-> 0, write |-> b.write - b.read]
      ELSE b

\* writeable_data() flips a buffer whose write position is at the end and
\* returns the bytes behind the write position: the buffer and their number.
writeable_data(b) == IF b.write = BufferSize THEN flip(b) ELSE b

\* mutant: one byte behind the array
Room_off_by_one(b) == BufferSize + 1 - b.write

Room(b) == BufferSize - b.write

\* Bytes are put into the writable part and committed.
commit_bytes_written(b, bytes) ==
    [b EXCEPT !.data = [k \in Cells |-> IF k \in b.write + 1 .. b.write + Len(bytes)
                                          THEN bytes[k - b.write] ELSE @[k]],
              !.write = @ + Len(bytes)]

add_bytes_read(b, n) ==
    [b EXCEPT !.data = [k \in Cells |-> IF k \in b.read + 1 .. b.read + n
                                          THEN Unused ELSE @[k]],
              !.read = @ + n]

\* mutant: the buffer keeps what an earlier connection left in it
reset_nothing(b) == b

reset(b) == EmptyBuffer

=============================================================================
