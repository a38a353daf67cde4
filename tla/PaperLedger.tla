----------------------------- MODULE PaperLedger -----------------------------
(***************************************************************************)
(* What wallet_db promises about one paper wallet: every published signal  *)
(* gets at most one terminal receipt, and a receipt says "filled" exactly  *)
(* when all the fills its intent calls for are in the ledger.  How many    *)
(* processes race for a signal, how they crash and what they keep in       *)
(* memory is left to PaperWallet, which implements this module.            *)
(***************************************************************************)
CONSTANTS
    SignalIds,    \* identities of trading_signals rows
    SignalKinds,  \* what a row can say: a set of records with an intent
    None          \* no row

VARIABLES
    signals,      \* signal_db: id -> kind, None while not visible
    receipts,     \* wallet_signal_consumption: id -> status, None while open
    legs          \* fills: id -> the reduce_only flags of its fills

vars == <<signals, receipts, legs>>

\* The reduce_only flags of the fills that an intent produces.
LegsOf(intent) ==
    {b \in BOOLEAN : intent \in (IF b THEN {"exit", "reverse"} ELSE {"enter", "reverse"})}

Init ==
    /\ signals = [i \in SignalIds |-> None]
    /\ receipts = [i \in SignalIds |-> None]
    /\ legs = [i \in SignalIds |-> {}]

Publish(i, kind) ==
    /\ signals[i] = None
    /\ signals' = [signals EXCEPT ![i] = kind]
    /\ UNCHANGED <<receipts, legs>>

\* The receipt and every leg appear in one step, or none of them does.
Fill(i) ==
    /\ signals[i] # None
    /\ receipts[i] = None
    /\ receipts' = [receipts EXCEPT ![i] = "filled"]
    /\ legs' = [legs EXCEPT ![i] = LegsOf(signals[i].intent)]
    /\ UNCHANGED signals

Reject(i) ==
    /\ signals[i] # None
    /\ receipts[i] = None
    /\ receipts' = [receipts EXCEPT ![i] = "rejected"]
    /\ UNCHANGED <<signals, legs>>

Next ==
    \E i \in SignalIds :
        \/ \E kind \in SignalKinds : Publish(i, kind)
        \/ Fill(i)
        \/ Reject(i)

Spec == Init /\ [][Next]_vars

=============================================================================
