------------------------------- MODULE Client -------------------------------
(***************************************************************************)
(* The web page as its user works with it (app/src/app/page.tsx): the two  *)
(* modals from which a wallet deposits, withdraws, borrows and repays, and *)
(* the dashboard they refresh.  Module Dashboard has the reads of a fetch: *)
(* here it begins and ends.  Amounts, balances and what the page shows are *)
(* left out: a click whose amount fails a test of its handler does nothing.*)
(*                                                                         *)
(* A click starts an async handler, a task, that goes on after its modal   *)
(* was closed and after another wallet was connected.  Closing takes a     *)
(* timer, which closes whatever modal of that kind is open when it fires.  *)
(*                                                                         *)
(* External: the wallet, which signs or refuses, and the program (module   *)
(* Lending), which executes or refuses.  A transaction whose handler was   *)
(* told of an error may land all the same; the page never learns of it.    *)
(***************************************************************************)
EXTENDS Integers

CONSTANTS
    Wallets,        \* the wallets of the browser
    None,           \* no wallet
    MaxFetches,     \* bound on the fetches that overlap
    MaxTasks,       \* bound on the handlers that run at once
    MaxTimers       \* bound on the timers of one modal

ASSUME WalletsAssumption == None \notin Wallets

Modals == {"deposit", "spend"}

VARIABLES
    walletPk,   \* the connected wallet, or None
    due,        \* a dependency of the dashboard's effect has changed
    fetches,    \* the runs of the effect: not there, or "old" or "new"
    modal,      \* per kind: is it mounted, its flag, its mode
    timers,     \* per kind: closings that have been asked for
    tasks,      \* the handlers that run, and how far they are
    unseen      \* history: there are news, and what was read since is not shown

page    == <<due, fetches, unseen>>
screen  == <<modal, timers>>
allVars == <<walletPk, page, screen, tasks>>

\* A fetch is new if it began after the news that are still unseen: a wallet was
\* connected, or its deposit, withdrawal or repayment succeeded.
Outdated == [i \in 1..MaxFetches |->
                IF fetches[i] = "none" THEN "none" ELSE "old"]

\* A modal just mounted.  mode is the spend modal's.
Mounted   == [open |-> TRUE, processing |-> FALSE, mode |-> "spend"]
Unmounted == [Mounted EXCEPT !.open = FALSE]

\* mounted: the modal the task was started from is still the one on screen.
NoTask == [at |-> "none", kind |-> "none", who |-> None, mounted |-> FALSE]

\* The deposit modal's handlers differ only in what they read first.
ModalOf(kind) == IF kind = "deposit" THEN "deposit" ELSE "spend"

ClientInit ==
    /\ walletPk = None
    /\ due = FALSE
    /\ fetches = [i \in 1..MaxFetches |-> "none"]
    /\ modal = [d \in Modals |-> Unmounted]
    /\ timers = [d \in Modals |-> 0]
    /\ tasks = [i \in 1..MaxTasks |-> NoTask]
    /\ unseen = FALSE

-----------------------------------------------------------------------------
(* The dashboard. *)

\* Mistake to catch: the wallet is missing from the effect's dependencies.
SwitchUnnoticed(w) ==
    /\ w # walletPk
    /\ walletPk' = w
    /\ unseen' = (w # None)
    /\ fetches' = Outdated
    /\ UNCHANGED <<due, screen, tasks>>

\* useWallet: another wallet, or none.  What is shown stays.
Switch(w) ==
    /\ w # walletPk
    /\ walletPk' = w
    /\ due' = TRUE
    /\ unseen' = (w # None)
    /\ fetches' = Outdated
    /\ UNCHANGED <<screen, tasks>>

\* The effect runs because a dependency changed; without a wallet it returns.
Effect ==
    /\ due
    /\ due' = FALSE
    /\ \/ walletPk = None /\ UNCHANGED fetches
       \/ /\ walletPk # None
          /\ \E i \in 1..MaxFetches :
                /\ fetches[i] = "none"
                /\ \A j \in 1..(i - 1) : fetches[j] # "none"
                /\ fetches' = [fetches EXCEPT
                                  ![i] = IF unseen THEN "new" ELSE "old"]
    /\ UNCHANGED <<walletPk, unseen, screen, tasks>>

\* Nothing cancels a fetch: the last one to end is what the page shows.
Settle(i) ==
    /\ fetches[i] # "none"
    /\ fetches' = [fetches EXCEPT ![i] = "none"]
    /\ unseen' = (unseen /\ fetches[i] = "old")
    /\ UNCHANGED <<walletPk, due, screen, tasks>>

\* onSuccess: the page's refreshTrigger, a dependency of its effect.
Refresh(t) ==
    /\ due' = TRUE
    /\ unseen' = (unseen \/ t.who = walletPk)
    /\ fetches' = IF unseen THEN fetches ELSE Outdated

-----------------------------------------------------------------------------
(* The modals. *)

Open(d) ==
    /\ ~modal[d].open
    /\ modal' = [modal EXCEPT ![d] = Mounted]
    /\ UNCHANGED <<walletPk, page, timers, tasks>>

\* setVisible(false); setTimeout(onClose, 260)
close(d) ==
    /\ timers[d] < MaxTimers
    /\ timers' = [timers EXCEPT ![d] = @ + 1]

\* A click beside the modal, which nothing prevents while it is processing.
Close(d) ==
    /\ modal[d].open
    /\ close(d)
    /\ UNCHANGED <<walletPk, page, modal, tasks>>

\* onClose unmounts the modal that is on screen by now.
TimerFires(d) ==
    /\ timers[d] > 0
    /\ timers' = [timers EXCEPT ![d] = @ - 1]
    /\ modal' = [modal EXCEPT ![d] = Unmounted]
    /\ tasks' = [i \in 1..MaxTasks |->
                    IF ModalOf(tasks[i].kind) = d
                    THEN [tasks[i] EXCEPT !.mounted = FALSE] ELSE tasks[i]]
    /\ UNCHANGED <<walletPk, page>>

\* A handler takes a free slot.
StartTask(kind, at) ==
    \E i \in 1..MaxTasks :
        /\ tasks[i] = NoTask
        /\ \A j \in 1..(i - 1) : tasks[j] # NoTask
        /\ tasks' = [tasks EXCEPT ![i] =
                        [at |-> at, kind |-> kind, who |-> walletPk,
                         mounted |-> TRUE]]

\* Mistake to catch: the flag is only set once the first answer is there.
BeginLate(kind, at) ==
    /\ walletPk # None
    /\ modal[ModalOf(kind)].open /\ ~modal[ModalOf(kind)].processing
    /\ StartTask(kind, at)
    /\ UNCHANGED <<walletPk, page, screen>>

\* A handler begins: its modal's button is disabled while processing.
Begin(kind, at) ==
    /\ walletPk # None
    /\ modal[ModalOf(kind)].open /\ ~modal[ModalOf(kind)].processing
    /\ modal' = [modal EXCEPT ![ModalOf(kind)].processing = TRUE]
    /\ StartTask(kind, at)
    /\ UNCHANGED <<walletPk, page, timers>>

\* Their tests of the amount are against the balances and the figures that the
\* page has read so far.
handleDeposit  == Begin("deposit", "rpc")
handleWithdraw == Begin("deposit", "vault")
handleBorrow   == modal["spend"].mode = "spend" /\ Begin("borrow", "rpc")
handleRepay    == modal["spend"].mode = "spend" /\ Begin("repay", "rpc")

-----------------------------------------------------------------------------
(* The handlers. *)

\* Mistake to catch: an early return that leaves the flag set.
FinallyForgotten(t) ==
    IF t.mounted /\ t.at # "vault"
    THEN [modal EXCEPT ![ModalOf(t.kind)].processing = FALSE] ELSE modal

\* finally: the flag of the modal, if that is still on screen.
Finally(t) ==
    IF t.mounted THEN [modal EXCEPT ![ModalOf(t.kind)].processing = FALSE]
    ELSE modal

\* getVaultAccount: the shares to withdraw are computed from the vault, unless
\* it is not there or the amount is worth no share: then the handler returns.
ReadVault(i) ==
    /\ tasks[i].at = "vault"
    /\ \/ /\ tasks' = [tasks EXCEPT ![i].at = "rpc"]
          /\ UNCHANGED modal
       \/ /\ tasks' = [tasks EXCEPT ![i] = NoTask]
          /\ modal' = Finally(tasks[i])
    /\ UNCHANGED <<walletPk, page, timers>>

\* Any await throws: the wallet refuses, the node does not answer, or the
\* program has refused.  A toast says so.
Throws(i) ==
    /\ tasks[i] # NoTask
    /\ tasks' = [tasks EXCEPT ![i] = NoTask]
    /\ modal' = Finally(tasks[i])
    /\ UNCHANGED <<walletPk, page, timers>>

\* Mistake to catch: success does not refresh the page.
SucceedsSilently(i) ==
    LET t == tasks[i]
    IN  /\ t.at = "rpc" /\ t.kind # "borrow"
        /\ tasks' = [tasks EXCEPT ![i] = NoTask]
        /\ modal' = Finally(t)
        /\ unseen' = (unseen \/ t.who = walletPk)
        /\ close(ModalOf(t.kind))
        /\ UNCHANGED <<walletPk, due, fetches>>

\* rpc() returns, and so the wallet has signed and the program executed, also
\* when the page shows another wallet by now: the page refreshes and the modal closes.
Succeeds(i) ==
    LET t == tasks[i]
    IN  /\ t.at = "rpc" /\ t.kind # "borrow"
        /\ tasks' = [tasks EXCEPT ![i] = NoTask]
        /\ modal' = Finally(t)
        /\ Refresh(t)
        /\ close(ModalOf(t.kind))
        /\ UNCHANGED walletPk

\* After a borrow the modal goes on to the off-ramp; the page is not refreshed.
Borrowed(i) ==
    LET t == tasks[i]
    IN  /\ t.at = "rpc" /\ t.kind = "borrow"
        /\ tasks' = [tasks EXCEPT ![i] = NoTask]
        /\ modal' = [Finally(t) EXCEPT !["spend"].mode =
                        IF t.mounted THEN "offramp" ELSE @]
        /\ UNCHANGED <<walletPk, page, timers>>

\* The last button of the simulated off-ramp: onSuccess, and close.
Ok ==
    /\ modal["spend"].open /\ modal["spend"].mode = "offramp"
    /\ due' = TRUE
    /\ close("spend")
    /\ UNCHANGED <<walletPk, fetches, unseen, modal, tasks>>

-----------------------------------------------------------------------------
Handler(i) ==
    ReadVault(i) \/ Succeeds(i) \/ Borrowed(i)

ClientNext ==
    \/ \E w \in Wallets \cup {None} : Switch(w)
    \/ Effect
    \/ \E i \in 1..MaxFetches : Settle(i)
    \/ \E d \in Modals :
          Open(d) \/ Close(d) \/ TimerFires(d)
    \/ handleDeposit \/ handleWithdraw \/ handleBorrow \/ handleRepay
    \/ \E i \in 1..MaxTasks :
          Handler(i) \/ Throws(i)
    \/ Ok

\* Every promise that the page awaits is settled in the end, one way or the
\* other; effects run and timers fire.
ClientSpec ==
    /\ ClientInit
    /\ [][ClientNext]_allVars
    /\ WF_allVars(Effect)
    /\ \A i \in 1..MaxFetches : WF_allVars(Settle(i))
    /\ \A i \in 1..MaxTasks : WF_allVars(Handler(i) \/ Throws(i))
    /\ \A d \in Modals : WF_allVars(TimerFires(d))

-----------------------------------------------------------------------------
\* The flag that disables a modal's button is set exactly while a handler runs
\* that was started from this very modal: a click, a modal closed and opened
\* again, or a late answer never makes two, and never locks the button.
FlagIsHonest ==
    \A d \in Modals :
        modal[d].processing <=>
            \E i \in 1..MaxTasks :
                /\ tasks[i] # NoTask
                /\ tasks[i].mounted /\ ModalOf(tasks[i].kind) = d

\* The button comes back, on every path through a handler.
ButtonComesBack ==
    \A d \in Modals : modal[d].processing ~> ~modal[d].processing

\* When a wallet is connected, and when its deposit, withdrawal or repayment
\* succeeds, the page comes to show what was read since, although the fetches of
\* before, of any wallet, may still end.  Not for good: an earlier fetch that
\* ends last is what the page goes on to show.
NewsAreShown ==
    \A w \in Wallets :
        (unseen /\ walletPk = w) ~> (~unseen \/ walletPk # w)
=============================================================================
