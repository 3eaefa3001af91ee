-------------------------- MODULE ReviewedCatalogue --------------------------
(***************************************************************************)
(* What approval promises of the catalogue, whatever interrupts it: the    *)
(* log of commits only grows; a draft change set becomes approved at most  *)
(* once; the one commit it is bound to, then or later when Git does not    *)
(* report it, is in the log and holds the whole group; only that commit is *)
(* published.                                                              *)
(***************************************************************************)
EXTENDS Naturals, Sequences

CONSTANTS ChangeSets, Skus, Files, None

VARIABLES
  log,        \* the catalogue after each commit
  status,
  bound,      \* the commit each change set is approved at, 0 when it is not known
  group,      \* the files each approved change set consists of
  published   \* the commits packages of each change set were built from

vars == <<log, status, bound, group, published>>

FileMap == [Skus -> Files]
NoFiles == [s \in Skus |-> None]

Init ==
  /\ \E tree \in FileMap : log = <<tree>>
  /\ status = [cs \in ChangeSets |-> "absent"]
  /\ bound = [cs \in ChangeSets |-> 0]
  /\ group = [cs \in ChangeSets |-> NoFiles]
  /\ published = [cs \in ChangeSets |-> {}]

Draft(cs) ==
  /\ status[cs] = "absent"
  /\ status' = [status EXCEPT ![cs] = "draft"]
  /\ UNCHANGED <<log, bound, group, published>>

Commit ==
  /\ \E tree \in FileMap : log' = Append(log, tree)
  /\ UNCHANGED <<status, bound, group, published>>

Holds(c, files) == \A s \in Skus : files[s] # None => log[c][s] = files[s]

Approve(cs) ==
  /\ status[cs] = "draft"
  /\ status' = [status EXCEPT ![cs] = "approved"]
  /\ \E c \in 0..Len(log), files \in FileMap :
       /\ c # 0 => Holds(c, files)
       /\ bound' = [bound EXCEPT ![cs] = c]
       /\ group' = [group EXCEPT ![cs] = files]
  /\ UNCHANGED <<log, published>>

Bind(cs) ==
  /\ status[cs] = "approved" /\ bound[cs] = 0
  /\ \E c \in 1..Len(log) : Holds(c, group[cs]) /\ bound' = [bound EXCEPT ![cs] = c]
  /\ UNCHANGED <<log, status, group, published>>

Publish(cs) ==
  /\ status[cs] = "approved" /\ bound[cs] # 0
  /\ published' = [published EXCEPT ![cs] = @ \union {bound[cs]}]
  /\ UNCHANGED <<log, status, bound, group>>

Discard(cs) ==
  /\ status[cs] \in {"draft", "approved"}
  /\ status' = [status EXCEPT ![cs] = "discarded"]
  /\ bound' = [bound EXCEPT ![cs] = 0]
  /\ group' = [group EXCEPT ![cs] = NoFiles]
  /\ UNCHANGED <<log, published>>

Next ==
  \/ Commit
  \/ \E cs \in ChangeSets : Draft(cs) \/ Approve(cs) \/ Bind(cs) \/ Publish(cs) \/ Discard(cs)

Spec == Init /\ [][Next]_vars
=============================================================================
