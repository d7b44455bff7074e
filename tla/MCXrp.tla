------------------------------- MODULE MCXrp -------------------------------
(***************************************************************************)
(* Small instance: two pages that begin with the same word, as those of    *)
(* the boards do; two records, with a byte that its register holds at      *)
(* power-up, and a register that is not written.                           *)
(***************************************************************************)
EXTENDS Xrp7724

MCImage == <<"head", "cfg1", "head", "cfg2">>
MCAddresses == {"8000", "8068", "C000", "C001", "D022"}
MCRecords == << << <<"C000", 5>>, <<"C001", 170>> >>, << <<"D022", 3>> >> >>
=============================================================================
