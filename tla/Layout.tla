------------------------------- MODULE Layout -------------------------------
(***************************************************************************)
(* How the packages under serialize/ write and read a structure: a Marshal *)
(* function writes its fields one after the other into a buffer, an        *)
(* Unmarshal function reads them from a stream and gives up at the first   *)
(* one that is cut off. Both are lists of fields here, one list for each   *)
(* function, and the operators below carry them out.                       *)
(*                                                                         *)
(* A byte is a number below Base, which stands for 256; sizes of numbers   *)
(* and of lengths are the ones of the code. A hash is one byte here.       *)
(***************************************************************************)
EXTENDS Naturals, Sequences, TLC

CONSTANTS
  Base,       \* values of a byte
  IPText      \* address -> its text

\* A number; bytes after their length (a number of the given size); a text in
\* place of an address, after a length; a structure; a list after its length.
Uint(name, size) == [kind |-> "uint", name |-> name, size |-> size]
Bytes(name, size) == [kind |-> "bytes", name |-> name, size |-> size]
IP(name) == [kind |-> "ip", name |-> name, size |-> 1]
Struct(name, layout) == [kind |-> "struct", name |-> name, of |-> layout]
List(name, layout) == [kind |-> "list", name |-> name, of |-> layout]

-----------------------------------------------------------------------------
(* Writing: binary.Write with BigEndian, utils.Uint8Len and Uint16Len *)

\* A number that does not fit loses its high digits.
Digits(n, size) == [i \in 1 .. size |-> (n \div Base^(size - i)) % Base]

Counted(data, size) == Digits(Len(data), size) \o data

RECURSIVE Marshal(_, _), MarshalList(_, _)

MarshalField(f, value) ==
  CASE f.kind = "uint" -> Digits(value, f.size)
    [] f.kind = "bytes" -> Counted(value, f.size)
    [] f.kind = "ip" -> Counted(IPText[value], f.size)
    [] f.kind = "struct" -> Marshal(f.of, value)
    [] f.kind = "list" -> Digits(Len(value), 2) \o MarshalList(f.of, value)

Marshal(layout, msg) ==
  IF layout = <<>> THEN <<>>
  ELSE MarshalField(Head(layout), msg[Head(layout).name])
         \o Marshal(Tail(layout), msg)

MarshalList(layout, msgs) ==
  IF msgs = <<>> THEN <<>>
  ELSE Marshal(layout, Head(msgs)) \o MarshalList(layout, Tail(msgs))

-----------------------------------------------------------------------------
(* Reading: binary.Read from the bytes that are left *)

Number(bytes) ==
  LET value[i \in 0 .. Len(bytes)] ==
        IF i = 0 THEN 0 ELSE value[i-1] * Base + bytes[i]
  IN  value[Len(bytes)]

Cut(data, n) == SubSeq(data, n + 1, Len(data))

\* What was read so far, and what is left; an error ends the reading.
Begin(data) == [ok |-> TRUE, msg |-> <<>>, left |-> data]
Error == [ok |-> FALSE, msg |-> <<>>, left |-> <<>>]

Got(state, name, value, left) ==
  [ok |-> TRUE, msg |-> (name :> value) @@ state.msg, left |-> left]

RECURSIVE ReadFields(_, _), ReadList(_, _, _)

Unmarshal(layout, data) == ReadFields(layout, Begin(data))

\* n structures: [ok, the list, what is left].
ReadList(layout, n, data) ==
  IF n = 0 THEN [ok |-> TRUE, msg |-> <<>>, left |-> data]
  ELSE LET first == Unmarshal(layout, data)
           others == ReadList(layout, n - 1, first.left)
       IN  IF first.ok /\ others.ok
           THEN [others EXCEPT !.msg = <<first.msg>> \o @]
           ELSE Error

ReadField(f, state) ==
  LET data == state.left
      size == IF f.kind = "struct" THEN 0 ELSE IF f.kind = "list" THEN 2 ELSE f.size
      n == Number(SubSeq(data, 1, size))
      rest == Cut(data, size)
      texts == {a \in DOMAIN IPText : IPText[a] = SubSeq(rest, 1, n)}
  IN  IF Len(data) < size THEN Error
      ELSE CASE f.kind = "uint" -> Got(state, f.name, n, rest)
             [] f.kind = "bytes" ->
                  IF Len(rest) < n THEN Error
                  ELSE Got(state, f.name, SubSeq(rest, 1, n), Cut(rest, n))
             [] f.kind = "ip" ->
                  IF Len(rest) < n \/ texts = {} THEN Error
                  ELSE Got(state, f.name, CHOOSE a \in texts : TRUE, Cut(rest, n))
             [] f.kind = "struct" ->
                  LET inner == Unmarshal(f.of, data)
                  IN  IF inner.ok THEN Got(state, f.name, inner.msg, inner.left)
                      ELSE Error
             [] f.kind = "list" ->
                  LET inner == ReadList(f.of, n, rest)
                  IN  IF inner.ok THEN Got(state, f.name, inner.msg, inner.left)
                      ELSE Error

ReadFields(layout, state) ==
  IF layout = <<>> \/ ~state.ok THEN state
  ELSE ReadFields(Tail(layout), ReadField(Head(layout), state))
=============================================================================
