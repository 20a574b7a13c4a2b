------------------------------- MODULE MCStack ------------------------------
(***************************************************************************)
(* The database of a local stack, explored in one run: either the          *)
(* operator's commands, the migrations and the services, or the BTS loader *)
(* and the flight linkage.  The two meet only where the tables are erased, *)
(* which both have as an action.                                           *)
(***************************************************************************)
EXTENDS LocalStack, Linkage

CONSTANTS C1, C2, A1, A2, D2, T1, S1, K1, K2, K3, R1, Garbage

VARIABLE scene

Row(key, carrier, origin, state, dest, tail, delay) ==
  [key |-> key, carrier |-> carrier, origin |-> origin, state |-> state,
   dest |-> dest, tail |-> tail, delay |-> delay, refusedBy |-> 0]

(* D2 is the number of A2 written with a decimal point.                    *)
MCPlain == {C1, C2, A1, A2}
MCNumber == [cell \in MCPlain \cup {D2} |-> IF cell = D2 THEN A2 ELSE cell]

(* The first file has one flight twice and names A2 first as a             *)
(* destination; the second gives A2 a state; the third has a flight of the *)
(* second with other data, and one without a carrier.  The fourth names A2 *)
(* with a state in a way that only pass 1 reads; the fifth has a cell that *)
(* is no number, the sixth a flight without a date.                        *)
MCFiles ==
  { <<Row(K1, C1, A1, S1, A2, T1, 0), Row(K1, C1, A1, S1, A2, Blank, 5),
      Row(K3, C2, A2, Blank, A1, T1, 5)>>,
    <<Row(K2, C2, A2, S1, A1, Blank, 7)>>,
    <<Row(K2, C1, A2, Blank, A2, Blank, 7), Row(K3, Blank, A2, S1, A1, Blank, 7)>>,
    <<Row(K2, C2, D2, S1, A1, Blank, 7)>>,
    <<Row(K2, C2, A2, S1, Garbage, Blank, 7)>>,
    <<[Row(K2, C2, A2, S1, A1, Blank, 7) EXCEPT !.refusedBy = 2]>> }

(* K1 and K3 fly on the day of the report, K2 a day later.  A report       *)
(* without a date is answered like one that no flight is likely for.       *)
MCDated == [r \in {R1} |-> 5]
MCFlightDate == [key \in {K1, K2, K3} |-> IF key = K2 THEN 6 ELSE 5]

(* Loads and sessions differ by nothing but their names.                   *)
Interchangeable == Permutations(Loads) \cup Permutations(Linkers)

StackAndDataInit ==
  /\ StackInit /\ DataInit
  /\ scene \in {"stack", "data"} /\ (scene = "stack" => ~ numericBooleans)

StackAndDataNext ==
  /\ scene' = scene
  /\ \/ scene = "stack" /\ StackNext /\ UNCHANGED dataVars
     \/ scene = "data"  /\ DataNext  /\ UNCHANGED stackVars

StackAndDataSpec == StackAndDataInit /\ [][StackAndDataNext]_<<scene, stackVars, dataVars>>
=============================================================================
