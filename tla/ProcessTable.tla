---------------------------- MODULE ProcessTable ----------------------------
(***************************************************************************)
(* What the process calls of the kernel promise, independently of how the  *)
(* CPU is shared: a table of process slots in which a live process may     *)
(* create a child, end with a code, or collect a child that has ended.     *)
(* There is no current process, no queue and no order of slots here;       *)
(* Scheduler.tla is shown to implement this specification.                 *)
(***************************************************************************)
EXTENDS Integers

CONSTANTS
  Slots,  (* identities a process can have                                 *)
  Root,   (* the slot of the process that exists from boot; adopts orphans *)
  Codes   (* exit codes                                                    *)

VARIABLES
  life,   (* life[p]: "free", "live", or "ended" and not yet collected     *)
  mother, (* mother[p]: who may collect p                                  *)
  code    (* code[p]: the code p ended with                                *)

tvars == <<life, mother, code>>

TableTypeOK ==
  /\ life \in [Slots -> {"free", "live", "ended"}]
  /\ mother \in [Slots -> Slots]
  /\ code \in [Slots -> Int]

TableInit ==
  /\ life = [p \in Slots |-> IF p = Root THEN "live" ELSE "free"]
  /\ mother = [p \in Slots |-> Root]
  /\ code = [p \in Slots |-> 0]

\* A live process p creates c in a free slot; nothing of an earlier process
\* in that slot is visible.
Create(p, c) ==
  /\ life[p] = "live" /\ life[c] = "free"
  /\ life' = [life EXCEPT ![c] = "live"]
  /\ mother' = [mother EXCEPT ![c] = p]
  /\ code' = [code EXCEPT ![c] = 0]

\* p ends with code e; in the same step its children, ended ones included,
\* pass to Root.
End(p, e) ==
  /\ p # Root /\ life[p] = "live"
  /\ life' = [life EXCEPT ![p] = "ended"]
  /\ mother' = [c \in Slots |->
                  IF life[c] # "free" /\ c # Root /\ mother[c] = p
                    THEN Root ELSE mother[c]]
  /\ code' = [code EXCEPT ![p] = e]

\* A live mother collects an ended child: the slot becomes free again.
Collect(p, c) ==
  /\ life[p] = "live" /\ life[c] = "ended" /\ mother[c] = p
  /\ life' = [life EXCEPT ![c] = "free"]
  /\ mother' = [mother EXCEPT ![c] = Root]
  /\ code' = [code EXCEPT ![c] = 0]

TableNext ==
  \E p \in Slots :
    \/ \E c \in Slots : Create(p, c) \/ Collect(p, c)
    \/ \E e \in Codes : End(p, e)

TableSpec == TableInit /\ [][TableNext]_tvars
=============================================================================
