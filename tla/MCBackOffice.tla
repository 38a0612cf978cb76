---------------------------- MODULE MCBackOffice ---------------------------
(***************************************************************************)
(* Small instances of BackOffice for TLC.  Every behaviour stays in one     *)
(* focus, chosen at the start, so that the instances add up instead of     *)
(* multiplying:                                                            *)
(*   versions  a quote is revised, sent and decided by two sessions        *)
(*   lines     its lines are replaced and cloned while it is sent          *)
(*   primacy   quotes of one opportunity are created while one is revised  *)
(*   won       an opportunity is won and engaged                           *)
(*   accepted  a quote is accepted and engaged, or revised                 *)
(*   pairs     three ports of one asset are paired and unpaired             *)
(*   cables    one cable between three ports of two assets is updated      *)
(*   trace     every pairing and cabling of four ports of two assets       *)
(*   log       two entries of two assets are logged, moved and deleted     *)
(***************************************************************************)
EXTENDS BackOffice, TLC

CONSTANTS o1, q1, q2, q3, k1, k2, g1, g2, s1, s2, a1, a2, p1, p2, p3, p4, p5, c1, c2,
          m1, m2, l1, l2

VARIABLE focus

mcVars == <<officeVars, focus>>

MCHome == [p \in Ports |-> IF p \in {p1, p2, p3} THEN a1 ELSE a2]

Foci ==
  {"versions", "lines", "primacy", "won", "accepted", "pairs", "cables", "trace", "log"}

MCInit == OfficeInit /\ focus \in Foci

\* No row, and no bound of a focus, tells these apart.
Symmetries ==
  Permutations(Sessions) \cup Permutations(Packages)
  \cup Permutations(Machines) \cup Permutations(Logs)

Serving(s) == dealing'[s].op
All(ops) == \A s \in Sessions : Serving(s) \in {"idle"} \cup ops

\* A request to edit quotes changes their status, here, unless primacy is the focus.
OnlyStatus == \A s \in Sessions : Serving(s) = "edit" => dealing'[s].opportunityId = Keep

\* Quotes are created one after the other, the first under the first reference.
FirstQuote ==
  \A s \in Sessions : Serving(s) = "create" =>
    /\ dealing'[s].d = q1 /\ dealing'[s].row.reference = k1 /\ dealing'[s].row.lines = {}

\* Where no lines are ever replaced, a revision reads them next after the row.
ReadTogether == \A s \in Sessions : dealing[s].op = "read" => Serving(s) # "read"

InFocus ==
  CASE focus = "versions" ->
         /\ All({"create", "edit", "read", "revise"})
         /\ OnlyStatus /\ FirstQuote /\ ReadTogether /\ opp'[o1] = Null
         /\ \A s \in Sessions : Serving(s) = "edit" => dealing'[s].to # "EXPIRED"
    [] focus = "lines" ->
         /\ All({"create", "edit", "lines", "replace", "read", "revise"})
         /\ OnlyStatus /\ FirstQuote /\ opp'[o1] = Null /\ quote'[q3] = Null
         /\ \A s \in Sessions : Serving(s) = "edit" => dealing'[s].to \in {"SENT", "REJECTED"}
    [] focus = "primacy" ->
         /\ All({"create", "edit", "read", "revise"}) /\ ReadTogether
         /\ \A s \in Sessions :
              /\ Serving(s) = "edit" => dealing'[s].to \in {Keep, "SENT"}
              /\ Serving(s) = "edit" => Keep \in {dealing'[s].to, dealing'[s].opportunityId}
              /\ Serving(s) = "create" =>
                   /\ dealing'[s].row.lines = {}
                   /\ <<dealing'[s].d, dealing'[s].row.reference>> \in {<<q1, k1>>, <<q2, k2>>}
         /\ quote'[q2] # Null => quote'[q1] # Null
         /\ opp'[o1] \in {Null, [stage |-> "DISCOVERY", workPackageId |-> Null]}
         /\ \A q \in Quotes : quote'[q] # Null => quote'[q].version <= 2
    [] focus = "won" ->
         All({"stage", "engage", "link"}) /\ \A q \in Quotes : quote'[q] = Null
    [] focus = "accepted" ->
         /\ All({"create", "edit", "read", "revise", "engage", "link"})
         /\ OnlyStatus /\ FirstQuote /\ ReadTogether /\ opp'[o1] = Null
         /\ quote'[q3] = Null
    [] focus = "pairs" ->
         /\ \A p \in {p4, p5} : port'[p] = Null
         /\ cable' = cable
         /\ \A s \in Sessions : wiring'[s].op \in {"pairing", "pair"} =>
              <<wiring'[s].a, wiring'[s].b>> \in {<<p1, p2>>, <<p2, p3>>, <<p3, p1>>}
    [] focus = "cables" ->
         /\ \A p \in {p3, p5} : port'[p] = Null
         /\ cable'[c2] = Null
         /\ \A s \in Sessions : wiring'[s].op \in {"idle", "cable"}
    [] focus = "trace" ->
         /\ port'[p3] = Null
         /\ \A s, t \in Sessions : s = t \/ Idle \in {wiring'[s], wiring'[t]}
         /\ \A s \in Sessions : wiring'[s].op # "cable"
         /\ \A s \in Sessions : wiring'[s].op \in {"pairing", "pair"} =>
              <<wiring'[s].a, wiring'[s].b>> \in {<<p1, p2>>, <<p4, p5>>}
         /\ \A c \in Cables : cable'[c] # Null =>
              cable'[c].fromAssetId = a1 /\ cable'[c].fromPortId # Null
    [] focus = "log" -> TRUE

MCNext ==
  /\ \/ /\ focus \in {"versions", "lines", "primacy", "won", "accepted"}
        /\ DealStep /\ UNCHANGED <<cablingVars, logVars>>
     \/ /\ focus \in {"pairs", "cables", "trace"}
        /\ CablingStep /\ UNCHANGED <<dealVars, logVars>>
     \/ focus = "log" /\ LogStep /\ UNCHANGED <<dealVars, cablingVars>>
  /\ InFocus
  /\ UNCHANGED focus

MCSpec == MCInit /\ [][MCNext]_mcVars
=============================================================================
