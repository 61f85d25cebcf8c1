---------------------------- MODULE Investigation ----------------------------
(***************************************************************************)
(* Evidence and confidence of an investigation: the scoring functions of   *)
(* core/investigation.py, on every Evidence record they are defined for,   *)
(* and the end of run_investigation that collects the evidence and         *)
(* concludes (supervisor/investigation.py).  Timestamps are numbers, 0 for *)
(* none; the fields that only reach prompts and reports are left out.      *)
(***************************************************************************)
EXTENDS Naturals, FiniteSets, Sequences

CONSTANTS Piece,        \* evidence records that may be collected
          MaxEvidence,  \* bound: pieces of evidence
          Unset          \* a field that is not set

\* DERIVATION_PAIRS, from the first to the second.
DerivationPairs ==
  {<<"OOMKill", "pod_restart">>, <<"error_rate_spike", "error_log">>,
   <<"error_rate_spike", "error_trace">>, <<"error_log", "error_trace">>,
   <<"latency_spike", "slow_trace">>, <<"memory_growth", "OOMKill">>,
   <<"node_NotReady", "pod_eviction">>, <<"node_MemoryPressure", "OOMKill">>,
   <<"cpu_throttle", "latency_spike">>}

OrderedLayer == {"change", "mechanism", "impact"}
Subtype == UNION {{p[1], p[2]} : p \in DerivationPairs}

\* signal is the pair of source_agent and signal_type; unexplained is a
\* contradiction of the hypothesis that has not been explained.
ASSUME InvestigationAssumption ==
  /\ MaxEvidence \in Nat
  /\ Unset \notin OrderedLayer
  /\ \A e \in Piece :
       /\ DOMAIN e = {"signal", "layer", "domain", "subtype", "stamp", "trace", "id", "from",
                      "unexplained"}
       /\ e.layer \in OrderedLayer \cup {"temporal", "elimination", Unset}
       /\ e.subtype \in Subtype \cup {Unset}
       /\ e.stamp \in Nat /\ e.unexplained \in BOOLEAN

VARIABLES evidence,  \* what the agents' answers yielded, in the order of the agents
          rca        \* the result, Unset until then

rcaVars == <<evidence, rca>>

-----------------------------------------------------------------------------
\* Independent signals.

AreDerived(a, b) ==
  \/ b.from # Unset /\ b.from = a.id
  \/ a.from # Unset /\ a.from = b.id
  \/ a.trace # Unset /\ a.trace = b.trace
  \/ /\ {<<a.subtype, b.subtype>>, <<b.subtype, a.subtype>>} \cap DerivationPairs # {}
     /\ a.domain = Unset \/ b.domain = Unset \/ a.domain = b.domain

SameSignal(a, b) ==
  \/ AreDerived(a, b)
  \/ a.layer # Unset /\ a.layer = b.layer /\ a.domain # Unset /\ a.domain = b.domain

\* find: the root of x.  Path halving leaves every root where it is.
Root(parent, x) ==
  LET up[k \in 0..Len(parent)] == IF k = 0 THEN x ELSE parent[up[k - 1]]
  IN  up[Len(parent)]

\* Mutant: the element is moved to the other group, not its root.
UniteElement(parent, x, y) == [parent EXCEPT ![x] = Root(parent, y)]

Unite(parent, x, y) == [parent EXCEPT ![Root(parent, x)] = Root(parent, y)]

\* The two nested loops of count_independent, row by row.
Grouped(s) ==
  LET n == Len(s)
      after[k \in 0..n * n] ==
        IF k = 0 THEN [i \in 1..n |-> i]
        ELSE LET parent == after[k - 1]
                 i == ((k - 1) \div n) + 1
                 j == ((k - 1) % n) + 1
             IN  IF i < j /\ SameSignal(s[i], s[j]) THEN Unite(parent, i, j) ELSE parent
  IN  after[n * n]

CountIndependent(s) ==
  LET parent == Grouped(s) IN Cardinality({Root(parent, i) : i \in DOMAIN s})

-----------------------------------------------------------------------------
\* Temporal order and score.

Stamps(s, layer) == {s[i].stamp : i \in {k \in DOMAIN s : s[k].layer = layer}} \ {0}

Earliest(s, layer) == CHOOSE t \in Stamps(s, layer) : \A u \in Stamps(s, layer) : t <= u

\* validate_temporal_order: the pairs of layers whose earliest evidence is reversed.
TemporalViolations(s) ==
  {p \in {<<"change", "mechanism">>, <<"mechanism", "impact">>, <<"change", "impact">>} :
     /\ Stamps(s, p[1]) # {} /\ Stamps(s, p[2]) # {}
     /\ Earliest(s, p[1]) > Earliest(s, p[2])}

\* Mutant: a count that more evidence can leave behind.
ExactlyThree(n) == n = 3

Enough(n) == n >= 3

PartialCoverage(layers) == Cardinality(layers \cap OrderedLayer) >= 2

\* score_confidence: level and track.
Score(s) ==
  LET layers == {s[i].layer : i \in DOMAIN s} \ {Unset}
      mechanisms == Cardinality({i \in DOMAIN s : s[i].layer = "mechanism"})
      blocked == TemporalViolations(s) # {} \/ \E i \in DOMAIN s : s[i].unexplained
  IN  CASE blocked -> <<"LOW", "INSUFFICIENT">>
        [] ~blocked /\ OrderedLayer \subseteq layers ->
             <<IF Enough(CountIndependent(s)) THEN "HIGH" ELSE "MEDIUM", "A">>
        [] ~blocked /\ "change" \notin layers /\ mechanisms >= 2 /\ "impact" \in layers ->
             <<"HIGH", "B">>
        [] OTHER ->
             IF {"change", "impact", "temporal"} \subseteq layers THEN <<"HIGH", "A">>
             ELSE IF PartialCoverage(layers)
             THEN <<"MEDIUM", IF "change" \in layers THEN "A" ELSE "B">>
             ELSE <<"LOW", "INSUFFICIENT">>

Rank(level) == CASE level = "LOW" -> 0 [] level = "MEDIUM" -> 1 [] level = "HIGH" -> 2

\* correlate: the confidence by distinct pairs of agent and signal type, as the
\* rank of baixa, media or alta.
Correlate(s, contradicted) ==
  LET n == Cardinality({s[i].signal : i \in DOMAIN s})
      base == IF n >= 3 THEN 2 ELSE IF n = 2 THEN 1 ELSE 0
  IN  IF contradicted /\ base > 0 THEN base - 1 ELSE base

Lower(a, b) == IF a < b THEN a ELSE b

-----------------------------------------------------------------------------
\* The end of run_investigation.

RcaInit == evidence = <<>> /\ rca = Unset

\* _parse_evidence yields a piece of evidence of some agent's answer.
Collect(e) ==
  /\ rca = Unset /\ Len(evidence) < MaxEvidence
  /\ evidence' = Append(evidence, e)
  /\ UNCHANGED rca

\* The contradicting indices of the model, those that exist.
Contradicting(said, s) == said \cap DOMAIN s

\* _synthesize_rca: the lower of the two confidences.
SynthesizeRca ==
  /\ rca = Unset
  /\ \E said \in {{}} \cup {{i} : i \in 1..MaxEvidence} :
       LET contradicting == Contradicting(said, evidence) IN
       rca' = [confidence |-> Lower(Rank(Score(evidence)[1]),
                                    Correlate(evidence, contradicting # {})),
               level |-> Score(evidence)[1],
               track |-> Score(evidence)[2],
               independent |-> CountIndependent(evidence),
               contradicting |-> contradicting]
  /\ UNCHANGED evidence

RcaNext == SynthesizeRca \/ \E e \in Piece : Collect(e)

RcaSpec == RcaInit /\ [][RcaNext]_rcaVars

-----------------------------------------------------------------------------
\* Types; a result speaks of evidence there is.
RcaTypeOK ==
  /\ evidence \in Seq(Piece)
  /\ rca = Unset \/
       rca \in [confidence : 0..2, level : {"LOW", "MEDIUM", "HIGH"},
                track : {"A", "B", "INSUFFICIENT"}, independent : 0..Len(evidence),
                contradicting : SUBSET DOMAIN evidence]

\* Reference: the connected components of the relation SameSignal.
Component(s, i) ==
  LET Closed == {S \in SUBSET DOMAIN s :
                   i \in S /\ \A x \in S, y \in DOMAIN s :
                                SameSignal(s[x], s[y]) \/ SameSignal(s[y], s[x]) => y \in S}
  IN  {x \in DOMAIN s : \A S \in Closed : x \in S}

\* The union-find counts what rules 1 to 3 of its docstring define: signals are
\* the components of the relation, however long the chains of derivation are and
\* in whatever order the agents' answers came.
SignalsAreComponents ==
  CountIndependent(evidence) = Cardinality({Component(evidence, i) : i \in DOMAIN evidence})

\* One more piece of evidence lowers the level only for a reason: it contradicts
\* the hypothesis, puts an effect before its cause, shows two signals to be one,
\* or is the first change or mechanism and so puts the whole under track A while
\* there are fewer than three signals.  No other path of score_confidence loses
\* what was established.
DropHasCause ==
  [][ \A e \in Piece :
        evidence' = Append(evidence, e) /\ Rank(Score(evidence')[1]) < Rank(Score(evidence)[1]) =>
          \/ e.unexplained
          \/ TemporalViolations(evidence') # {}
          \/ CountIndependent(evidence') < CountIndependent(evidence)
          \/ /\ e.layer \in {"change", "mechanism"}
             /\ \A i \in DOMAIN evidence : evidence[i].layer # e.layer
             /\ CountIndependent(evidence') < 3 ]_rcaVars

\* specs/18-rca-investigation-workflow/requirements.md lines 27 and 41: "3 independent
\* signals -> high confidence", for a conclusion that nothing contradicts.
ThreeSignalsAreHigh ==
  rca # Unset /\ rca.independent >= 3 /\ rca.contradicting = {} => rca.confidence = 2
=============================================================================
