------------------------------ MODULE MCIngest ------------------------------
(***************************************************************************)
(* Instances of Ingest for TLC.                                            *)
(***************************************************************************)
EXTENDS Ingest, TLC

CONSTANTS d1, d2, r1, r2

(* Two documents of two report sets that share an ACN.                     *)
SharedContents == (d1 :> {r1, r2}) @@ (d2 :> {r2})

(* One document with one report.                                           *)
SingleContents == d1 :> {r1}

(* A good document, and a broken one in which nothing can be found.        *)
PoisonContents == (d1 :> {r1}) @@ (d2 :> {})

Symmetry == Permutations(Clients) \cup Permutations(Workers)
=============================================================================
