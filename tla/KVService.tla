----------------------------- MODULE KVService -----------------------------
(***************************************************************************)
(* What the key-value server promises, without sockets, buffers or events: *)
(* the well-formed requests of all clients take effect one at a time in a  *)
(* single order that keeps each client's own order, each exactly once; a   *)
(* get is answered with the last value set, and not since deleted, before  *)
(* it in that order; each client receives its own replies in order.  A     *)
(* malformed request never takes effect, nor does anything its client sent *)
(* after it.                                                               *)
(*                                                                         *)
(* There is no table here: the answer to a command is read off the history *)
(* of what took effect before it.                                          *)
(***************************************************************************)
EXTENDS Naturals, Sequences, FiniteSets, FiniteSetsExt

CONSTANTS Clients, Commands, BadRequest

VARIABLES
  issued,     \* issued[c]: the requests c handed to its socket, in order
  history,    \* the requests that took effect: [client, cmd, reply]
  delivered   \* delivered[c]: how many replies c has received in full

svars == <<issued, history, delivered>>

AnyRequest == Commands \cup {BadRequest}

\* How many requests of c have taken effect.
Count(c) == Cardinality({i \in DOMAIN history : history[i].client = c})

Writes(cmd, k) ==
  /\ \/ Len(cmd) = 3 /\ cmd[1] = "set"
     \/ Len(cmd) = 2 /\ cmd[1] = "del"
  /\ cmd[2] = k

\* The words a get of k finds after the commands of h: none, or one.
Found(h, k) ==
  LET W == {i \in DOMAIN h : Writes(h[i].cmd, k)} IN
  IF W = {} THEN << >>
  ELSE LET last == h[Max(W)].cmd IN
       IF last[1] = "set" THEN <<last[3]>> ELSE << >>

Answer(h, cmd) ==
  CASE Len(cmd) = 2 /\ cmd[1] = "get" ->
         [status |-> IF Found(h, cmd[2]) = << >> THEN "RES_NX" ELSE "RES_OK",
          data   |-> Found(h, cmd[2])]
    [] Len(cmd) = 3 /\ cmd[1] = "set" ->
         [status |-> "RES_OK", data |-> <<cmd[2], cmd[3]>>]
    [] Len(cmd) = 2 /\ cmd[1] = "del" ->
         [status |-> "RES_OK", data |-> << >>]
    [] OTHER -> [status |-> "RES_ERR", data |-> << >>]

Init ==
  /\ issued = [c \in Clients |-> << >>]
  /\ history = << >>
  /\ delivered = [c \in Clients |-> 0]

Issue(c) ==
  /\ \E r \in AnyRequest : issued' = [issued EXCEPT ![c] = Append(@, r)]
  /\ UNCHANGED <<history, delivered>>

\* The next request of c takes effect, provided it is well formed.
TakeEffect(c) ==
  LET n == Count(c) + 1 IN
  /\ n <= Len(issued[c])
  /\ issued[c][n] # BadRequest
  /\ history' = Append(history, [client |-> c, cmd |-> issued[c][n],
                                 reply |-> Answer(history, issued[c][n])])
  /\ UNCHANGED <<issued, delivered>>

Deliver(c) ==
  /\ \E n \in delivered[c] + 1 .. Count(c) :
       delivered' = [delivered EXCEPT ![c] = n]
  /\ UNCHANGED <<issued, history>>

Next == \E c \in Clients : Issue(c) \/ TakeEffect(c) \/ Deliver(c)

Spec == Init /\ [][Next]_svars
=============================================================================
