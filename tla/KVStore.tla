------------------------------ MODULE KVStore ------------------------------
(***************************************************************************)
(* The command interpreter of server.tpp (do_request) over the table       *)
(* g_data.  A command is what parse_req hands over: a sequence of words.   *)
(* The table is a partial function: std::map::find returning end() is a    *)
(* word outside its DOMAIN.                                                *)
(***************************************************************************)
EXTENDS Naturals, Sequences

CONSTANT Words      \* the strings that occur in commands, keys and values

EmptyStore == [k \in {} |-> ""]

Tables == UNION {[K -> Words] : K \in SUBSET Words}

IsGet(cmd) == Len(cmd) = 2 /\ cmd[1] = "get"
IsSet(cmd) == Len(cmd) = 3 /\ cmd[1] = "set"
IsDel(cmd) == Len(cmd) = 2 /\ cmd[1] = "del"

\* Mutant: del leaves the key in the table.
StoreAfterLosingDel(g_data, cmd) ==
  IF IsSet(cmd)
  THEN [k \in DOMAIN g_data \cup {cmd[2]} |->
          IF k = cmd[2] THEN cmd[3] ELSE g_data[k]]
  ELSE g_data

\* Mutant: get looks the key up with operator[], which inserts an empty value.
StoreAfterInsertingGet(g_data, cmd) ==
  IF IsGet(cmd)
  THEN [k \in DOMAIN g_data \cup {cmd[2]} |->
          IF k \in DOMAIN g_data THEN g_data[k] ELSE ""]
  ELSE StoreAfterLosingDel(g_data, cmd)

\* g_data after do_request(cmd).
StoreAfter(g_data, cmd) ==
  CASE IsSet(cmd) -> [k \in DOMAIN g_data \cup {cmd[2]} |->
                        IF k = cmd[2] THEN cmd[3] ELSE g_data[k]]
    [] IsDel(cmd) -> [k \in DOMAIN g_data \ {cmd[2]} |-> g_data[k]]
    [] OTHER      -> g_data

Statuses == {"RES_OK", "RES_ERR", "RES_NX"}

\* The Response do_request(cmd) fills in.  Its data is the sequence of words
\* the text is put together from: the value found by get, the key and the
\* value of a set ("k set to v"), nothing otherwise.
Reply(g_data, cmd) ==
  CASE IsGet(cmd) /\ cmd[2] \in DOMAIN g_data ->
         [status |-> "RES_OK", data |-> <<g_data[cmd[2]]>>]
    [] IsGet(cmd) /\ cmd[2] \notin DOMAIN g_data ->
         [status |-> "RES_NX", data |-> << >>]
    [] IsSet(cmd) -> [status |-> "RES_OK", data |-> <<cmd[2], cmd[3]>>]
    [] IsDel(cmd) -> [status |-> "RES_OK", data |-> << >>]
    [] OTHER      -> [status |-> "RES_ERR", data |-> << >>]

Replies == [status : Statuses, data : Seq(Words)]
=============================================================================
