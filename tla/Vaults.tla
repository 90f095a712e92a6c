-------------------------------- MODULE Vaults --------------------------------
(***************************************************************************)
(* The tokens of the lending core: every handler of module Lending with    *)
(* the SPL transfer and the call to MarginFi that it makes                 *)
(* (programs/liilend/src/instructions/*.rs, cpi/).                         *)
(*                                                                         *)
(* vault_ata, user_ata, borrow_vault_ata and liquidator_ata are any token  *)
(* accounts: the program asks neither whose they are nor of which mint.    *)
(* What it relies on is the token program, which takes tokens only from an *)
(* account of the signer (the user, or the vault's PDA) that has enough,   *)
(* and only to an account of the same mint.                                *)
(*                                                                         *)
(* External: the token accounts that the PDAs of the vaults own.  A purse  *)
(* <<v, n>> stands for those of vault v in mint n; all other accounts are  *)
(* Outside, where tokens come and go for reasons of their own.             *)
(***************************************************************************)
EXTENDS Lending

CONSTANTS
    Outside,        \* the token accounts that no vault owns
    CpiChoices,     \* what clients pass as remaining accounts: nothing,
                    \* MarginFi with the vault's accounts there, or others
    MaxTokens,      \* bound: tokens in a purse
    MaxSent         \* bound: what a vault may have, or owe, at MarginFi

Purses == Mints \X Mints

ASSUME OutsideAssumption == Outside \notin Purses
ASSUME CpiAssumption == CpiChoices \subseteq {"none", "marginfi", "other"}
ASSUME TokensAssumption == MaxTokens \in Nat /\ MaxSent \in Nat

VARIABLES
    held,       \* external: the tokens in each purse
    sent,       \* history: sent to MarginFi for each vault, less what came back
    gifts,      \* history: tokens that came to each vault beside its handlers
    astray      \* history: vaults that a transaction has served otherwise

vaultVars == <<held, sent, gifts, astray>>

\* A vault's own account: the one its tokens belong in.
Own(m) == <<m, m>>

VaultTypeOK ==
    /\ held \in [Purses -> 0..MaxTokens]
    /\ sent \in [Mints -> Int]
    /\ gifts \in [Mints -> Int]
    /\ astray \subseteq Mints

VaultInit ==
    /\ held = [p \in Purses |-> 0]
    /\ sent = [m \in Mints |-> 0]
    /\ gifts = [m \in Mints |-> 0]
    /\ astray = {}

-----------------------------------------------------------------------------
\* What the purses hold after a transfer; one account may be both ends of it.
Moved(h, from, to, amount) ==
    [p \in Purses |-> h[p] - (IF p = from THEN amount ELSE 0)
                           + (IF p = to THEN amount ELSE 0)]

\* What the token program asks of a transfer out of a vault.
CanPay(h, m, vault_ata, user_ata, amount) ==
    /\ vault_ata \in Purses /\ vault_ata[1] = m
    /\ user_ata # Outside => user_ata[2] = vault_ata[2]
    /\ h[vault_ata] >= amount

\* What the purses may hold after the dispatch to MarginFi, of which the vault
\* is to get `refill` tokens, or to give them if that is negative.  The adapter
\* takes the program and its accounts from the client and signs for the vault:
\* any other program may move what this vault owns, and add to any purse.
Dispatched(m, cpi, h, refill) ==
    {g \in [Purses -> 0..MaxTokens] :
        \/ cpi = "none" /\ g = h
        \/ cpi = "marginfi" /\ g = [h EXCEPT ![Own(m)] = @ + refill]
        \/ cpi = "other" /\ \A p \in Purses : p[1] # m => g[p] >= h[p]}

\* What MarginFi has of the vault.
Sends(m, cpi, refill) ==
    /\ sent' = IF cpi = "marginfi" /\ m \notin astray
               THEN [sent EXCEPT ![m] = @ - refill] ELSE sent
    /\ sent'[m] \in (-MaxSent)..MaxSent

\* What the vaults other than `served` got in their own accounts.
Given(served) ==
    /\ \A p \in Purses : held'[p] <= MaxTokens
    /\ gifts' = [x \in Mints |->
                   IF x \in served \cup astray THEN gifts[x]
                   ELSE gifts[x] + held'[Own(x)] - held[Own(x)]]

\* A transaction of vault m: was it served by the accounts that are its own?
Served(m, properly) ==
    /\ astray' = IF properly THEN astray ELSE astray \cup {m}
    /\ Given({m})

TokenAccounts == Purses \cup {Outside}

\* Where a payment of vault m comes from its own account and leaves it.
PaysFromOwn(m, vault_ata, user_ata) ==
    vault_ata = Own(m) /\ user_ata # Own(m)

\* The transfer from the user, then the dispatch, of deposit and repay.
PaidIn(m, amount) ==
    \E vault_ata \in TokenAccounts, cpi \in CpiChoices :
        /\ held' \in Dispatched(m, cpi, Moved(held, Outside, vault_ata, amount),
                                -amount)
        /\ Sends(m, cpi, -amount)
        /\ Served(m, vault_ata = Own(m) /\ cpi # "other")

handle_deposit(u, m, amount) == Deposit(u, m, amount) /\ PaidIn(m, amount)

\* The dispatch comes before the payment.
handle_withdraw(u, m, shares) ==
    LET amount == Redeemed(m, shares)
    IN  /\ Withdraw(u, m, shares)
        /\ \E vault_ata, user_ata \in TokenAccounts, cpi \in CpiChoices :
              /\ \E h \in Dispatched(m, cpi, held, amount) :
                    /\ CanPay(h, m, vault_ata, user_ata, amount)
                    /\ held' = Moved(h, vault_ata, user_ata, amount)
              /\ Sends(m, cpi, amount)
              /\ Served(m, PaysFromOwn(m, vault_ata, user_ata) /\ cpi # "other")

\* The payment comes before the dispatch.
handle_borrow(u, m, amount) ==
    /\ Borrow(u, m, amount)
    /\ \E vault_ata, user_ata \in TokenAccounts, cpi \in CpiChoices :
          /\ CanPay(held, m, vault_ata, user_ata, amount)
          /\ held' \in Dispatched(m, cpi,
                                  Moved(held, vault_ata, user_ata, amount), amount)
          /\ Sends(m, cpi, amount)
          /\ Served(m, PaysFromOwn(m, vault_ata, user_ata) /\ cpi # "other")

handle_repay(u, m, amount) == Repay(u, m, amount) /\ PaidIn(m, amount)

\* The borrow vault pays; there is no dispatch.
handle_liquidate(u, c, b, maxRepay) ==
    LET repay == Repaid(u, b, maxRepay)
    IN  /\ Liquidate(u, c, b, maxRepay)
        /\ \E borrow_vault_ata, liquidator_ata \in TokenAccounts :
              /\ CanPay(held, b, borrow_vault_ata, liquidator_ata, repay)
              /\ held' = Moved(held, borrow_vault_ata, liquidator_ata, repay)
              /\ Served(b, PaysFromOwn(b, borrow_vault_ata, liquidator_ata))
        /\ UNCHANGED sent

\* External, token by token: anybody may add to a purse, and a program that
\* has signed for a vault may go on taking from it.
TokensMove ==
    /\ \E p \in Purses :
          \/ held' = [held EXCEPT ![p] = @ + 1]
          \/ /\ p[1] \in astray
             /\ held[p] > 0
             /\ held' = [held EXCEPT ![p] = @ - 1]
    /\ Given({})
    /\ UNCHANGED <<vars, sent, astray>>

VaultNext ==
    \/ \E u \in Users, m \in Mints, amount \in Amounts :
          \/ handle_deposit(u, m, amount)
          \/ handle_borrow(u, m, amount)
          \/ handle_repay(u, m, amount)
    \/ \E u \in Users, m \in Mints, shares \in ShareAmounts :
          handle_withdraw(u, m, shares)
    \/ \E u \in Users, c, b \in Mints, maxRepay \in Amounts :
          handle_liquidate(u, c, b, maxRepay)
    \/ (\E value \in BOOLEAN : SetPaused(value)) /\ UNCHANGED vaultVars
    \/ CollectFees /\ UNCHANGED vaultVars
    \/ TokensMove

VaultSpec == Init /\ VaultInit /\ [][VaultNext]_<<vars, vaultVars>>

-----------------------------------------------------------------------------
\* What a vault claims to hold, and what it was given beside, it has: in its
\* own token account, at MarginFi, or paid to liquidators.  This is so as long
\* as its transactions named its own accounts, here and at MarginFi, whatever
\* the transactions of other vaults name or call: those may give to it, and
\* never take.
Custody ==
    \A m \in Mints \ astray :
        /\ gifts[m] >= 0
        /\ vaultValue[m] + gifts[m]
              = held[Own(m)] + sent[m] + liquidationPaid[m]

\* "Liquidator repays debt -> receives collateral + 5% bonus"
\* (docs/ARCHITECTURE.md): debt falls only when a vault is paid, here of the
\* transactions that name the vaults' own accounts.
DebtFallsOnlyWhenPaid ==
    [][(astray' = {} /\ totalBorrows' < totalBorrows)
          => \E p \in Purses : held'[p] > held[p]]_<<vars, vaultVars>>
=============================================================================
