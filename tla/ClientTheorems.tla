---------------------------- MODULE ClientTheorems ----------------------------
(***************************************************************************)
(* What is proved about the page (module Client): the flag that disables   *)
(* the button of a modal is that of the handler started from this modal.   *)
(***************************************************************************)
EXTENDS Client, TLAPS

Slots == 1..MaxTasks

\* The task in a slot was started from the modal of this kind that is on screen.
Holds(i, d) == tasks[i].mounted /\ ModalOf(tasks[i].kind) = d

ModalsOk ==
    modal \in [Modals -> [open : BOOLEAN, processing : BOOLEAN,
                          mode : {"spend", "offramp"}]]

TasksOk ==
    tasks \in [Slots -> [at : {"none", "vault", "rpc"},
                         kind : {"none", "deposit", "borrow", "repay"},
                         who : Wallets \cup {None}, mounted : BOOLEAN]]

\* The flag of a modal is set if and only if some task holds the modal,
FlagIsHeld == \A d \in Modals : modal[d].processing <=> \E i \in Slots : Holds(i, d)

\* and then the modal is on screen, and it is one task.
HeldOnce ==
    \A d \in Modals :
        /\ modal[d].processing => modal[d].open
        /\ \A i, j \in Slots : Holds(i, d) /\ Holds(j, d) => i = j

\* The inductive invariant.
ClientInvariant == ModalsOk /\ TasksOk /\ FlagIsHeld /\ HeldOnce

\* An empty slot holds nothing.
LEMMA NoTaskIsUnmounted ==
    /\ NoTask.mounted = FALSE
    /\ NoTask.kind = "none" /\ NoTask.at = "none" /\ NoTask.who = None
BY DEF NoTask

LEMMA KindsHaveModals == ASSUME NEW kind PROVE ModalOf(kind) \in Modals
BY DEF ModalOf, Modals

LEMMA FlagOfInvariant == ASSUME ClientInvariant PROVE FlagIsHonest
<1>1. \A i \in Slots : tasks[i].mounted => tasks[i] # NoTask
  BY NoTaskIsUnmounted
<1> QED
  BY <1>1 DEF ClientInvariant, FlagIsHeld, FlagIsHonest, Holds, Slots

\* A task ends: its slot is empty, and if it holds a modal, the flag of that
\* modal is reset and no other flag is touched.
LEMMA TaskEnds ==
    ASSUME ClientInvariant, NEW i \in Slots,
           tasks' = [tasks EXCEPT ![i] = NoTask],
           ModalsOk',
           \A d \in Modals : modal'[d].open = modal[d].open,
           \A d \in Modals : modal'[d].processing = Finally(tasks[i])[d].processing
    PROVE  ClientInvariant'
<1>1. /\ TasksOk /\ ModalsOk
      /\ \A d \in Modals : modal[d].processing <=> \E j \in Slots : Holds(j, d)
      /\ \A d \in Modals : modal[d].processing => modal[d].open
      /\ \A d \in Modals : \A j, k \in Slots : Holds(j, d) /\ Holds(k, d) => j = k
  BY DEF ClientInvariant, FlagIsHeld, HeldOnce
<1>2. TasksOk'
  BY <1>1 DEF TasksOk, NoTask
<1>3. \A d \in Modals : /\ ~Holds(i, d)'
                        /\ \A j \in Slots : j # i => Holds(j, d)' = Holds(j, d)
  BY <1>1, NoTaskIsUnmounted DEF TasksOk, Holds
<1>4. \A d \in Modals :
          modal'[d].processing <=> modal[d].processing /\ ~Holds(i, d)
  <2> SUFFICES ASSUME NEW d \in Modals
               PROVE  modal'[d].processing <=>
                          modal[d].processing /\ ~Holds(i, d)
    OBVIOUS
  <2>1. CASE tasks[i].mounted
    <3>1. ModalOf(tasks[i].kind) \in Modals
      BY KindsHaveModals
    <3>2. Finally(tasks[i]) =
              [modal EXCEPT ![ModalOf(tasks[i].kind)].processing = FALSE]
      BY <2>1 DEF Finally
    <3>3. Finally(tasks[i])[d].processing <=>
              modal[d].processing /\ d # ModalOf(tasks[i].kind)
      BY <1>1, <3>1, <3>2 DEF ModalsOk
    <3> QED
      BY <2>1, <3>3 DEF Holds
  <2>2. CASE ~tasks[i].mounted
    BY <2>2 DEF Finally, Holds
  <2> QED
    BY <2>1, <2>2
<1>5. FlagIsHeld'
  BY <1>1, <1>3, <1>4 DEF FlagIsHeld
<1>6. HeldOnce'
  BY <1>1, <1>3, <1>4 DEF HeldOnce
<1> QED
  BY <1>2, <1>5, <1>6 DEF ClientInvariant

\* What Finally does to the modals.
LEMMA FinallyKeepsModals ==
    ASSUME ModalsOk, NEW t
    PROVE  /\ Finally(t) \in [Modals -> [open : BOOLEAN, processing : BOOLEAN,
                                         mode : {"spend", "offramp"}]]
           /\ \A d \in Modals : Finally(t)[d].open = modal[d].open
<1>1. ModalOf(t.kind) \in Modals
  BY KindsHaveModals
<1> QED
  BY <1>1 DEF Finally, ModalsOk

LEMMA BeginKeeps ==
    ASSUME ClientInvariant, NEW kind \in {"deposit", "borrow", "repay"},
           NEW at \in {"vault", "rpc"}, walletPk \in Wallets \cup {None},
           Begin(kind, at)
    PROVE  ClientInvariant'
<1> DEFINE d == ModalOf(kind)
<1>1. d \in Modals
  BY KindsHaveModals
<1>2. /\ modal[d].open /\ ~modal[d].processing
      /\ modal' = [modal EXCEPT ![d].processing = TRUE]
      /\ TasksOk /\ ModalsOk
      /\ \A e \in Modals : modal[e].processing <=> \E j \in Slots : Holds(j, e)
      /\ \A e \in Modals : modal[e].processing => modal[e].open
      /\ \A e \in Modals : \A j, k \in Slots : Holds(j, e) /\ Holds(k, e) => j = k
  BY DEF Begin, ClientInvariant, FlagIsHeld, HeldOnce
<1>3. PICK i \in Slots :
          /\ tasks[i] = NoTask
          /\ tasks' = [tasks EXCEPT ![i] =
                          [at |-> at, kind |-> kind, who |-> walletPk,
                           mounted |-> TRUE]]
  BY DEF Begin, StartTask, Slots
<1> HIDE DEF d
<1>4. ModalsOk'
  BY <1>1, <1>2 DEF ModalsOk
<1>5. TasksOk'
  BY <1>2, <1>3 DEF TasksOk
<1>6. /\ \A e \in Modals : Holds(i, e)' <=> e = d
      /\ \A e \in Modals : ~Holds(i, e)
      /\ \A e \in Modals : \A j \in Slots : j # i => Holds(j, e)' = Holds(j, e)
  BY <1>2, <1>3, NoTaskIsUnmounted DEF TasksOk, Holds, d
<1>7. \A e \in Modals :
          /\ modal'[e].open = modal[e].open
          /\ modal'[e].processing <=> modal[e].processing \/ e = d
  BY <1>1, <1>2 DEF ModalsOk
<1>8. FlagIsHeld'
  BY <1>2, <1>6, <1>7 DEF FlagIsHeld
<1>9. HeldOnce'
  BY <1>1, <1>2, <1>6, <1>7 DEF HeldOnce
<1> QED
  BY <1>4, <1>5, <1>8, <1>9 DEF ClientInvariant

LEMMA OpenKeeps ==
    ASSUME ClientInvariant, NEW d \in Modals, Open(d)
    PROVE  ClientInvariant'
<1>1. /\ ~modal[d].open /\ tasks' = tasks
      /\ modal' = [modal EXCEPT ![d] = Mounted]
      /\ ModalsOk
  BY DEF Open, ClientInvariant
<1>2. ~modal[d].processing
  BY <1>1 DEF ClientInvariant, HeldOnce
<1>3. ModalsOk'
  BY <1>1 DEF ModalsOk, Mounted
<1>4. /\ modal'[d].open /\ ~modal'[d].processing
      /\ \A e \in Modals : e # d => modal'[e] = modal[e]
  BY <1>1 DEF ModalsOk, Mounted
<1> QED
  BY <1>1, <1>2, <1>3, <1>4
     DEF ClientInvariant, TasksOk, FlagIsHeld, HeldOnce, Holds

\* A timer takes the modal, and no task holds it any more.
LEMMA TimerFiresKeeps ==
    ASSUME ClientInvariant, NEW d \in Modals, TimerFires(d)
    PROVE  ClientInvariant'
<1>1. /\ modal' = [modal EXCEPT ![d] = Unmounted]
      /\ tasks' = [i \in Slots |->
                      IF ModalOf(tasks[i].kind) = d
                      THEN [tasks[i] EXCEPT !.mounted = FALSE] ELSE tasks[i]]
      /\ ModalsOk /\ TasksOk
  BY DEF TimerFires, ClientInvariant, Slots
<1>2. ModalsOk'
  BY <1>1 DEF ModalsOk, Unmounted, Mounted
<1>3. TasksOk'
  BY <1>1 DEF TasksOk
<1>4. /\ ~modal'[d].open /\ ~modal'[d].processing
      /\ \A e \in Modals : e # d => modal'[e] = modal[e]
  BY <1>1 DEF ModalsOk, Unmounted, Mounted
<1>5. \A i \in Slots : \A e \in Modals : Holds(i, e)' <=> Holds(i, e) /\ e # d
  BY <1>1 DEF TasksOk, Holds
<1> QED
  BY <1>2, <1>3, <1>4, <1>5 DEF ClientInvariant, FlagIsHeld, HeldOnce

LEMMA ReadVaultKeeps ==
    ASSUME ClientInvariant, NEW i \in Slots, ReadVault(i)
    PROVE  ClientInvariant'
<1>1. ModalsOk /\ TasksOk
  BY DEF ClientInvariant
<1>2. CASE tasks' = [tasks EXCEPT ![i].at = "rpc"] /\ UNCHANGED modal
  <2>1. TasksOk'
    BY <1>1, <1>2 DEF TasksOk
  <2>2. \A j \in Slots : tasks'[j].mounted = tasks[j].mounted
                         /\ tasks'[j].kind = tasks[j].kind
    BY <1>1, <1>2 DEF TasksOk
  <2> QED
    BY <1>2, <2>1, <2>2
       DEF ClientInvariant, ModalsOk, FlagIsHeld, HeldOnce, Holds
<1>3. CASE tasks' = [tasks EXCEPT ![i] = NoTask] /\ modal' = Finally(tasks[i])
  <2>1. ModalsOk' /\ \A d \in Modals : modal'[d].open = modal[d].open
    BY <1>1, <1>3, FinallyKeepsModals DEF ModalsOk
  <2> QED
    BY <1>3, <2>1, TaskEnds
<1> QED
  BY <1>2, <1>3 DEF ReadVault

LEMMA ThrowsKeeps ==
    ASSUME ClientInvariant, NEW i \in Slots, Throws(i) \/ Succeeds(i)
    PROVE  ClientInvariant'
<1>1. tasks' = [tasks EXCEPT ![i] = NoTask] /\ modal' = Finally(tasks[i])
  BY DEF Throws, Succeeds
<1>2. ModalsOk
  BY DEF ClientInvariant
<1>3. ModalsOk' /\ \A d \in Modals : modal'[d].open = modal[d].open
  BY <1>1, <1>2, FinallyKeepsModals DEF ModalsOk
<1> QED
  BY <1>1, <1>3, TaskEnds

LEMMA BorrowedKeeps ==
    ASSUME ClientInvariant, NEW i \in Slots, Borrowed(i)
    PROVE  ClientInvariant'
<1> DEFINE F == Finally(tasks[i])
<1>1. ModalsOk /\ TasksOk
  BY DEF ClientInvariant
<1>2. /\ F \in [Modals -> [open : BOOLEAN, processing : BOOLEAN,
                           mode : {"spend", "offramp"}]]
      /\ \A d \in Modals : F[d].open = modal[d].open
  BY <1>1, FinallyKeepsModals
<1>3. /\ tasks' = [tasks EXCEPT ![i] = NoTask]
      /\ modal' = [F EXCEPT !["spend"].mode =
                      IF tasks[i].mounted THEN "offramp" ELSE @]
  BY DEF Borrowed
<1> HIDE DEF F
<1>4. ModalsOk' /\ \A d \in Modals : /\ modal'[d].open = F[d].open
                                    /\ modal'[d].processing = F[d].processing
  BY <1>2, <1>3 DEF ModalsOk, Modals
<1> QED
  BY <1>2, <1>3, <1>4, TaskEnds DEF F

WalletOk == walletPk \in Wallets \cup {None}

LEMMA ClientInvariantHolds == ClientSpec => []ClientInvariant
<1>1. ClientInit => ClientInvariant /\ WalletOk
  <2> SUFFICES ASSUME ClientInit PROVE ClientInvariant /\ WalletOk
    OBVIOUS
  <2>1. ModalsOk /\ \A d \in Modals : ~modal[d].processing
    BY DEF ClientInit, ModalsOk, Unmounted, Mounted
  <2>2. TasksOk /\ \A i \in Slots : tasks[i] = NoTask
    BY DEF ClientInit, TasksOk, NoTask, Slots
  <2>3. \A i \in Slots, d \in Modals : ~Holds(i, d)
    BY <2>2, NoTaskIsUnmounted DEF Holds
  <2> QED
    BY <2>1, <2>2, <2>3
       DEF ClientInit, ClientInvariant, FlagIsHeld, HeldOnce, WalletOk
<1>2. ClientInvariant /\ WalletOk /\ [ClientNext]_allVars
          => ClientInvariant' /\ WalletOk'
  <2> SUFFICES ASSUME ClientInvariant, WalletOk, [ClientNext]_allVars
               PROVE  ClientInvariant' /\ WalletOk'
    OBVIOUS
  <2>1. WalletOk'
    BY DEF WalletOk, ClientNext, Switch, Effect, Settle, Open, Close,
        TimerFires, handleDeposit, handleWithdraw, handleBorrow, handleRepay,
        Begin, Handler, ReadVault, Succeeds, Borrowed, Throws, Ok, allVars
  <2>2. CASE UNCHANGED <<modal, tasks>>
    <3>1. ModalsOk' /\ TasksOk'
      BY <2>2 DEF ClientInvariant, ModalsOk, TasksOk
    <3>2. \A i \in Slots, d \in Modals : Holds(i, d)' = Holds(i, d)
      BY <2>2 DEF Holds
    <3>3. modal' = modal
      BY <2>2
    <3> QED
      BY <2>1, <3>1, <3>2, <3>3 DEF ClientInvariant, FlagIsHeld, HeldOnce
  <2>3. CASE handleDeposit \/ handleWithdraw \/ handleBorrow \/ handleRepay
    <3>1. \E kind \in {"deposit", "borrow", "repay"}, at \in {"vault", "rpc"} :
             Begin(kind, at)
      BY <2>3 DEF handleDeposit, handleWithdraw, handleBorrow, handleRepay
    <3> QED
      BY <2>1, <3>1, BeginKeeps DEF WalletOk
  <2>4. ASSUME NEW d \in Modals, Open(d) \/ TimerFires(d)
        PROVE  ClientInvariant'
    BY <2>4, OpenKeeps, TimerFiresKeeps
  <2>5. ASSUME NEW i \in Slots, Handler(i) \/ Throws(i)
        PROVE  ClientInvariant'
    BY <2>5, ReadVaultKeeps, ThrowsKeeps, BorrowedKeeps DEF Handler
  <2> QED
    BY <2>1, <2>2, <2>3, <2>4, <2>5
       DEF ClientNext, Switch, Effect, Settle, Close, Ok, screen, allVars, Slots
<1> QED
  BY <1>1, <1>2, PTL DEF ClientSpec

\* THEOREM: the flag that disables a modal's button is set exactly while one
\* handler runs that was started from this very modal, for any number of
\* handlers, timers and fetches that overlap.
THEOREM FlagAlwaysHonest == ClientSpec => []FlagIsHonest
BY ClientInvariantHolds, FlagOfInvariant, PTL

\* THEOREM: two handlers of one modal that is on screen never run at once.
THEOREM OneHandlerPerModal == ClientSpec => []HeldOnce
BY ClientInvariantHolds, PTL DEF ClientInvariant
=============================================================================
