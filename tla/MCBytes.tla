------------------------------ MODULE MCBytes ------------------------------
(* Model-checking instance of Stream, and of ByteArray with it. *)
EXTENDS Stream

(* A value of every kind: negative numbers, one and two bytes of varint, an  *)
(* empty string and one that is not.                                         *)
SmallInputs ==
    [kind \in Kinds |->
        CASE kind = "raw"   -> {<<1, 2, 3>>}
          [] kind = "int"   -> {-2}
          [] kind = "uint"  -> {10}
          [] kind = "vuint" -> {3}
          [] kind = "vint"  -> {-4}
          [] kind = "strF"  -> {<<>>}
          [] kind = "strV"  -> {<<>>, <<5>>}]
Buffer == <<7, 6>>
=============================================================================
