------------------------------ MODULE ByteStore ------------------------------
(***************************************************************************)
(* What a byte array promises, whatever its memory looks like: a sequence  *)
(* of bytes and a position in it.  The comments of sylar/bytearray.h on    *)
(* write(), read(), setPosition() and clear() speak of no more than this.  *)
(***************************************************************************)
EXTENDS Integers, FiniteSets

CONSTANTS Byte,      (* the values of a byte                               *)
          Unknown,   (* the value of a byte that nobody has written        *)
          MaxSize    (* a bound on the size                                *)

VARIABLES content,   (* the bytes, [0 .. m_size - 1 -> Byte]                *)
          position,  (* where the next byte is read or written             *)
          result     (* the bytes the last operation has taken             *)

Cells   == Byte \cup {Unknown}
Size(c) == Cardinality(DOMAIN c)
Bigger(m, n) == IF m > n THEN m ELSE n

Init == content = <<>> /\ position = 0 /\ result = <<>>

(* n bytes are written at the position, over what is there.                 *)
Write(n) ==
    /\ position' = position + n
    /\ content' \in [0 .. Bigger(position + n, Size(content)) - 1 -> Cells]
    /\ \A i \in DOMAIN content :
           i \notin position .. position + n - 1 => content'[i] = content[i]
    /\ result' = <<>>

(* n bytes are read; a byte nobody has written may read as anything.        *)
Read(n) ==
    /\ position + n <= Size(content)
    /\ position' = position + n
    /\ result' \in [1 .. n -> Byte]
    /\ \A i \in 1 .. n : content[position + i - 1] \in {result'[i], Unknown}
    /\ UNCHANGED content

(* The position moves; beyond the end, the bytes skipped become part of the *)
(* content, whatever they are.                                              *)
Seek(v) ==
    /\ position' = v
    /\ content' \in [0 .. Bigger(v, Size(content)) - 1 -> Cells]
    /\ \A i \in DOMAIN content : content'[i] = content[i]
    /\ result' = <<>>

Clear == content' = <<>> /\ position' = 0 /\ result' = <<>>

Next == Clear \/ \E n \in 0 .. MaxSize : Write(n) \/ Read(n) \/ Seek(n)

vars == <<content, position, result>>
Spec == Init /\ [][Next]_vars
=============================================================================
