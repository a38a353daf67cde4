---------------------------- MODULE MCPaperWallet ----------------------------
(***************************************************************************)
(* Instances of PaperWallet for TLC.                                       *)
(***************************************************************************)
EXTENDS PaperWallet

Kind(symbol, intent, side, price, verdict) ==
    [symbol |-> symbol, intent |-> intent, side |-> side,
     price |-> price, verdict |-> verdict]

\* Entries on both sides of one symbol, a reversal and an exit, at leverage 1
\* and prices that leave every exit solvent.
OneSymbol ==
    {Kind("BTC", "enter", "long", 4, "admissible"),
     Kind("BTC", "enter", "short", 4, "admissible"),
     Kind("BTC", "reverse", "short", 5, "admissible"),
     Kind("BTC", "exit", "long", 5, "admissible")}

\* Long enough chains for the accounting to drift; the last kind cannot be
\* afforded from the initial cash and is over the limit after a profit.
Chain ==
    {Kind("BTC", "enter", "long", 2, "admissible"),
     Kind("BTC", "reverse", "short", 4, "admissible"),
     Kind("BTC", "reverse", "long", 2, "over_sized"),
     Kind("BTC", "exit", "long", 2, "admissible"),
     Kind("ETH", "enter", "short", 9, "over_filled")}

\* A leveraged short that the market runs over before its exit.
Leveraged ==
    {Kind("BTC", "enter", "short", 2, "admissible"),
     Kind("BTC", "exit", "long", 4, "admissible"),
     Kind("BTC", "enter", "long", 2, "no_stop")}

=============================================================================
