-------------------------- MODULE MCQuoteAuthoring --------------------------
(* Two families, one with two conventions; two instruments of the same       *)
(* family that may also change places, and one of a family the page does not *)
(* know.                                                                     *)
EXTENDS QuoteAuthoring

MCConventions == [DEPOSIT |-> <<"DECIMAL">>, FUTURE |-> <<"PRICE_POINTS", "DECIMAL">>]
MCDefaultForm ==
  [family |-> "DEPOSIT", convention |-> "DECIMAL", lexeme |-> "x", display |-> "DECIMAL",
   scale |-> 4]
I(name, family) == [id |-> <<name, 0>>, family |-> family, edits |-> 0, quote |-> None]
MCDefaultDraft == <<I("a", "DEPOSIT"), I("b", "DEPOSIT")>>
MCDocuments == { <<I("b", "DEPOSIT"), I("a", "BOND")>> }
MCTopologies == { <<I("t", "FUTURE")>> }
=============================================================================
