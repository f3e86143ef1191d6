------------------------------ MODULE MCBuffer ------------------------------
(* One or two buffers under every operation, and typed values through one. *)
EXTENDS Buffer, BufferCodec, TLC

CONSTANTS
  s1, s2, c1, c2,
  MaxOps                  \* bound: operations on two buffers; on one they are unlimited

Modes == s1 :> "plain" @@ s2 :> "plain" @@ c1 :> "circular" @@ c2 :> "circular"

VARIABLES
  names,                  \* the buffers of the client; none for the client of typed values
  ops
all == <<bufferVars, items, names, ops>>

MCInit ==
  /\ BufferInit
  /\ ops = 0
  /\ \/ names = {} /\ CodecInit
     \/ /\ names \in {{s1}, {c1}, {s1, s2}, {c1, c2}, {s1, c1}}
        /\ pipe = Blank("plain") /\ pending = <<>> /\ sends = MaxSends

Operate ==
  /\ Use(names)
  /\ ops < MaxOps
  /\ ops' = IF Cardinality(names) = 1 THEN 0 ELSE ops + 1
  /\ UNCHANGED <<items, names>>

Exchange ==
  /\ names = {}
  /\ CodecNext
  /\ UNCHANGED <<bufferVars, names, ops>>

Spec == MCInit /\ [][Operate \/ Exchange]_all

-----------------------------------------------------------------------------
Scalar(n) == [k |-> "int", size |-> n]
Bool == [k |-> "bool"]
String == [k |-> "string"]
MapOf(K, V) == [k |-> "map", key |-> K, of |-> V]
Items ==
  {[t |-> Scalar(4), v |-> 258],
   [t |-> String, v |-> <<7, 8>>],
   [t |-> [k |-> "wstring"], v |-> <<9>>],
   [t |-> [k |-> "vector", of |-> String], v |-> <<<<5>>, <<6, 7>>>>],
   [t |-> [k |-> "list", of |-> Bool], v |-> <<TRUE, FALSE>>],
   [t |-> [k |-> "list", of |-> Pair(Scalar(2), Bool)], v |-> <<<<258, TRUE>>, <<1, FALSE>>>>],
   [t |-> MapOf(Scalar(1), Pair(Bool, String)), v |-> [i \in {1, 2} |-> <<TRUE, Repeat(7, i)>>]],
   [t |-> MapOf(Scalar(1), Pair(Bool, Scalar(2))), v |-> [i \in {1, 2} |-> <<TRUE, 300>>]],
   [t |-> MapOf(Scalar(1), String), v |-> [i \in {1, 2} |-> Repeat(7, i)]],
   [t |-> MapOf(Scalar(1), Scalar(2)), v |-> [i \in {3, 4} |-> 300]],
   [t |-> Pair(Scalar(1), String), v |-> <<2, <<1>>>>],
   [t |-> [k |-> "array", of |-> Scalar(2), n |-> 2], v |-> <<1, 256>>],
   [t |-> [k |-> "array", of |-> Bool, n |-> 2], v |-> <<TRUE, FALSE>>],
   [t |-> [k |-> "error_code"], v |-> [value |-> 2, category |-> "generic"]],
   [t |-> [k |-> "buffer"], v |-> <<1, 2, 3>>],
   [t |-> [k |-> "struct", fields |-> <<Bool, MapOf(Scalar(1), String)>>],
    v |-> <<TRUE, [i \in {1} |-> <<2>>]>>]}
=============================================================================
