----------------------------- MODULE Deployment -----------------------------
(***************************************************************************)
(* The scripts that put the program to work: scripts/initialize-protocol.ts*)
(* and scripts/verify-deployment.ts, over the program's administration.    *)
(*                                                                         *)
(* initialize-protocol reads an account, and sends the transaction that    *)
(* creates it when the account was missing.  It stops at the first error   *)
(* and is started again by hand.  A transaction may land long after its    *)
(* script has given up, and two runs may overlap.  Equal late transactions *)
(* are kept once: of two equal ones only the first can do anything.        *)
(***************************************************************************)
EXTENDS Governance, Sequences

CONSTANTS
    Runs,             \* the terminals from which the script is run
    Deployer,         \* the key of DEPLOYER_KEYPAIR_PATH
    MULTISIGS,        \* what MULTISIG_AUTHORITY may be; None: not set
    ASSET_CONFIGS     \* constants.ts: the mints to configure, in order

ASSUME DeployerAssumption ==
    Deployer \in Keys /\ MULTISIGS \subseteq Keys \cup {None}
ASSUME ConfigsAssumption == ASSET_CONFIGS \in Seq(Mints)

VARIABLES
    script,     \* per terminal: the run of initialize-protocol
    late,       \* transactions that no script waits for any more
    verify,     \* the run of verify-deployment
    completed   \* history: some run has said "Initialization Complete"

depVars == <<govVars, script, late, verify, completed>>

InitTx          == [kind |-> "initProtocol"]
ConfigureTx(m)  == [kind |-> "configureAsset", mint |-> m]
TransferTx(new) == [kind |-> "transferAuthority", to |-> new]

\* step 0 is [1/3], the steps up to N are the assets of [2/3], N + 1 is [3/3].
\* raced is a history: another transaction has changed what this run has read.
Idle == [at |-> "ended", step |-> 0, to |-> None,
         raced |-> FALSE, refused |-> FALSE]

N == Len(ASSET_CONFIGS)

\* What a run sends at its step.
TxOf(run) == CASE run.step = 0      -> InitTx
               [] run.step \in 1..N -> ConfigureTx(ASSET_CONFIGS[run.step])
               [] OTHER             -> TransferTx(run.to)

NotVerifying == [read |-> 0, failed |-> FALSE, after |-> FALSE]

DepInit ==
    /\ GovInit
    /\ script = [r \in Runs |-> Idle]
    /\ late = {}
    /\ verify = NotVerifying
    /\ completed = FALSE

-----------------------------------------------------------------------------
\* The deployer alone signs what the script sends; transfer_authority wants
\* the signature of the new authority too.
Accepted(tx) ==
    \/ tx.kind = "initProtocol" /\ authority = None
    \/ /\ tx.kind = "configureAsset"
       /\ authority = Deployer
       /\ ~paused
       /\ tx.mint \notin DOMAIN feeds
    \/ /\ tx.kind = "transferAuthority"
       /\ authority = Deployer
       /\ tx.to = Deployer

Execute(tx) ==
    /\ Accepted(tx)
    /\ \/ tx.kind = "initProtocol" /\ InitProtocol(Deployer)
       \/ tx.kind = "configureAsset" /\ ConfigureAsset(Deployer, tx.mint)
       \/ tx.kind = "transferAuthority" /\ TransferAuthority(Deployer, tx.to)

\* Another transaction went through while these runs were between a read and
\* the execution of what they send.
Raced(others) ==
    [s \in Runs |->
        IF s \in others /\ script[s].at # "ended"
        THEN [script[s] EXCEPT !.raced = TRUE] ELSE script[s]]

\* main: a run begins.
Launch(r) ==
    /\ script[r].at = "ended"
    /\ script' = [script EXCEPT ![r] = [Idle EXCEPT !.at = "read"]]
    /\ UNCHANGED <<govVars, late, verify, completed>>

\* The run goes on to a step.
GoTo(step) == [Idle EXCEPT !.at = "read", !.step = step]

\* Mistake to catch: a run that does not look whether the state exists.
ReadStateBlindly(r) ==
    /\ script[r].at = "read" /\ script[r].step = 0
    /\ script' = [script EXCEPT ![r].at = "sent"]
    /\ UNCHANGED <<govVars, late, verify, completed>>

\* [1/3]: getAccountInfo(protocolState); initProtocol is sent if it is missing.
ReadState(r) ==
    /\ script[r].at = "read" /\ script[r].step = 0
    /\ script' = [script EXCEPT ![r] =
                     IF authority # None THEN GoTo(1)
                     ELSE [@ EXCEPT !.at = "sent"]]
    /\ UNCHANGED <<govVars, late, verify, completed>>

\* Mistake to catch: break instead of continue at an asset already configured.
ReadVaultBreaking(r) ==
    /\ script[r].at = "read" /\ script[r].step \in 1..N
    /\ script' = [script EXCEPT ![r] =
                     IF ASSET_CONFIGS[@.step] \in DOMAIN feeds
                     THEN GoTo(N + 1)
                     ELSE [@ EXCEPT !.at = "sent"]]
    /\ UNCHANGED <<govVars, late, verify, completed>>

\* Mistake to catch: a run that does not look whether the vault exists.
ReadVaultBlindly(r) ==
    /\ script[r].at = "read" /\ script[r].step \in 1..N
    /\ script' = [script EXCEPT ![r].at = "sent"]
    /\ UNCHANGED <<govVars, late, verify, completed>>

\* [2/3]: getAccountInfo(vault); an asset that has one is skipped.
ReadVault(r) ==
    /\ script[r].at = "read" /\ script[r].step \in 1..N
    /\ script' = [script EXCEPT ![r] =
                     IF ASSET_CONFIGS[@.step] \in DOMAIN feeds
                     THEN GoTo(@.step + 1)
                     ELSE [@ EXCEPT !.at = "sent"]]
    /\ UNCHANGED <<govVars, late, verify, completed>>

\* [3/3]: the transfer, if MULTISIG_AUTHORITY is set; the summary otherwise.
ReadMultisig(r) ==
    /\ script[r].at = "read" /\ script[r].step = N + 1
    /\ \E multisig \in MULTISIGS :
          /\ script' = [script EXCEPT ![r] =
                IF multisig = None THEN Idle
                ELSE [@ EXCEPT !.at = "sent", !.to = multisig]]
          /\ completed' = (completed \/ multisig = None)
    /\ UNCHANGED <<govVars, late, verify>>

\* rpc() returns a signature: the transaction was executed and confirmed.
Confirmed(r) ==
    LET done == script[r].step = N + 1
    IN  /\ script[r].at = "sent"
        /\ Execute(TxOf(script[r]))
        /\ script' = [Raced(Runs \ {r}) EXCEPT ![r] =
                         IF done THEN Idle ELSE GoTo(script[r].step + 1)]
        /\ completed' = (completed \/ done)
        /\ UNCHANGED <<late, verify>>

\* rpc() throws: the program has refused the transaction.  process.exit(1).
Refused(r) ==
    /\ script[r].at = "sent"
    /\ ~Accepted(TxOf(script[r]))
    /\ script' = [script EXCEPT ![r] = [Idle EXCEPT !.refused = TRUE]]
    /\ UNCHANGED <<govVars, late, verify, completed>>

\* Any await throws, or the run is killed; what it has sent may still land.
GiveUp(r) ==
    /\ script[r].at # "ended"
    /\ script' = [script EXCEPT ![r] = Idle]
    /\ late' = IF script[r].at = "sent" THEN late \cup {TxOf(script[r])}
               ELSE late
    /\ UNCHANGED <<govVars, verify, completed>>

\* External: a transaction that nobody waits for lands, or is forgotten.
LandLate(tx) ==
    /\ tx \in late
    /\ Execute(tx)
    /\ late' = late \ {tx}
    /\ script' = Raced(Runs)
    /\ UNCHANGED <<verify, completed>>

Expire(tx) ==
    /\ tx \in late
    /\ late' = late \ {tx}
    /\ UNCHANGED <<govVars, script, verify, completed>>

-----------------------------------------------------------------------------
\* verify-deployment reads the state, the treasury, both again to decode them,
\* and then the vault and the feed of every asset, each at its own moment.
ReadsOfState == 4
ReadsOfAsset == 2
Checks == ReadsOfState + ReadsOfAsset * N

\* A pause is only a warning.  That the program is there and that the node
\* answers every read is taken for granted.
Missing(read) ==
    IF read <= ReadsOfState THEN authority = None
    ELSE ASSET_CONFIGS[(read - ReadsOfState + 1) \div ReadsOfAsset]
            \notin DOMAIN feeds

StartVerify ==
    /\ verify.read = 0
    /\ verify' = [read |-> 1, failed |-> FALSE, after |-> completed]
    /\ UNCHANGED <<govVars, script, late, completed>>

Check ==
    /\ verify.read \in 1..Checks
    /\ verify' = [verify EXCEPT !.read = @ + 1,
                                !.failed = @ \/ Missing(verify.read)]
    /\ UNCHANGED <<govVars, script, late, completed>>

\* Exit code 1 when a check failed, 0 otherwise.
EndVerify ==
    /\ verify.read > Checks
    /\ verify' = NotVerifying
    /\ UNCHANGED <<govVars, script, late, completed>>

-----------------------------------------------------------------------------
\* By hand, with both keys: the handover and the pause.
ByHand ==
    /\ \E k \in Keys : \/ AcceptAuthority(k)
                       \/ \E value \in BOOLEAN : SetPausedBy(k, value)
                       \/ \E new \in Keys : TransferAuthority(k, new)
    /\ UNCHANGED <<script, late, verify, completed>>

ScriptStep(r) ==
    ReadState(r) \/ ReadVault(r) \/ ReadMultisig(r) \/ Confirmed(r) \/ Refused(r)

DepNext ==
    \/ \E r \in Runs : Launch(r) \/ ScriptStep(r) \/ GiveUp(r)
    \/ \E tx \in late : LandLate(tx) \/ Expire(tx)
    \/ StartVerify \/ Check \/ EndVerify
    \/ ByHand

\* The operator runs the script again whenever it has ended, and no step of it
\* goes wrong every time it is tried.
DepFairness ==
    \A r \in Runs :
        /\ WF_depVars(Launch(r))
        /\ WF_depVars(Refused(r))
        /\ SF_depVars(ReadState(r))
        /\ \A step \in 0..N :
              /\ SF_depVars(script[r].step = step /\ ReadVault(r))
              /\ SF_depVars(script[r].step = step /\ Confirmed(r))

DepSpec == DepInit /\ [][DepNext]_depVars /\ DepFairness

-----------------------------------------------------------------------------
\* The program is ready: its state exists and so does every asset's vault.
Ready == authority # None /\ \A i \in DOMAIN ASSET_CONFIGS :
                                ASSET_CONFIGS[i] \in DOMAIN feeds

\* A verification that begins after some run of initialize-protocol has said
\* "Initialization Complete" finds nothing missing, however many runs failed
\* half way, overlapped or left transactions behind.
VerifiedOnceComplete == verify.after => ~verify.failed

\* A run is refused by the program only for a reason outside of it: another
\* transaction went through between its read and its write, the program was
\* paused or handed over before, or the new authority has not signed.
RefusedOnlyWhenRaced ==
    [][\A r \in Runs :
          script'[r].refused /\ ~script[r].refused =>
              \/ script[r].raced
              \/ paused \/ authority # Deployer
              \/ script[r].step > N]_depVars

\* Running the script again and again makes the program ready, wherever the
\* earlier runs stopped, unless the deployer lost the right to.
RerunsMakeReady == []<>(Ready \/ paused \/ authority \notin {None, Deployer})
=============================================================================
