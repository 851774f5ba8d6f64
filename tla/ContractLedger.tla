--------------------------- MODULE ContractLedger ----------------------------
(***************************************************************************)
(* What the bot promises about its book of contracts, without tasks,       *)
(* answers, crashes or risk counters: a contract is entered once, on a     *)
(* symbol that has no other open contract, and is booked once, for good.   *)
(***************************************************************************)
CONSTANTS Symbols, Contracts, NoSymbol

VARIABLE ledger

Outcome == {"won", "lost", "refund"}

Init == ledger = [c \in Contracts |-> [status |-> "none", symbol |-> NoSymbol,
                                       outcome |-> "refund"]]

Enter(c, s) ==
  /\ ledger[c].status = "none"
  /\ \A d \in Contracts : ledger[d].status = "open" => ledger[d].symbol # s
  /\ ledger' = [ledger EXCEPT ![c] = [status |-> "open", symbol |-> s,
                                      outcome |-> "refund"]]

Book(c) ==
  /\ ledger[c].status = "open"
  /\ \E o \in Outcome :
       ledger' = [ledger EXCEPT ![c] = [status |-> "settled",
                                        symbol |-> ledger[c].symbol, outcome |-> o]]

Next == \E c \in Contracts : Book(c) \/ \E s \in Symbols : Enter(c, s)

Spec == Init /\ [][Next]_ledger

FairSpec == Spec /\ \A c \in Contracts : WF_ledger(Book(c))
=============================================================================
