----------------------------- MODULE MCComponents -----------------------------
(***************************************************************************)
(* The components on small instances, with what they crash on, depend on   *)
(* and are asked; and their pure functions on all the inputs of a small    *)
(* size.                                                                   *)
(***************************************************************************)
EXTENDS Components, TLC

-----------------------------------------------------------------------------
(***************************************************************************)
(* Constants                                                               *)
(***************************************************************************)

\* One section, some together, none, two ways to crash, or a crash that a section prevents.
MCTargets ==
  {[needs |-> {set}, masked |-> {}] : set \in {{}, {1}, {2, 3}, {1, 2, 3}, {N}}} \cup
  {[needs |-> {{1, 3}, {2, N}}, masked |-> {}],
   [needs |-> {{1, 3}}, masked |-> {{1, 3, 4}, {1, 2, 3}}]}

MCWrappings ==
  {<<<<"try", "exec">>, <<"exec">>, <<"try">>, <<"exec", "try">>>>,
   <<<<>>, <<"try", "exec">>, <<>>, <<>>>>}

MCOptions ==
  {[bisect |-> bisected, verify |-> TRUE, factor |-> 2, artifact |-> found, flaky |-> unsteady, faulty |-> FALSE] :
     bisected, found, unsteady \in BOOLEAN} \cup
  {[bisect |-> TRUE, verify |-> FALSE, factor |-> 3, artifact |-> TRUE, flaky |-> FALSE, faulty |-> TRUE]}

MCDeps == [p \in Packages |-> IF p = "numpy" THEN {} ELSE {"numpy"}]

MCSessions == Session

-----------------------------------------------------------------------------
(***************************************************************************)
(* The pure functions, on all the inputs of a small size                   *)
(***************************************************************************)

\* What is taken for a null dereference is never called a stack fault, and a fault just
\* below the stack pointer in memory that is not mapped always is.
ASSUME \A t \in Texts :
  /\ t.nearNull /\ t.distance = 0 => Classification(t) = "unlikely"
  /\ t.stackUnmapped = "both" /\ ~Vetoed(t) => Classification(t) = "likely"
  /\ Classification(t) # "unlikely" => Score(t) >= 3 /\ ~Vetoed(t)

\* Negating a clause twice is no negation, and a clause and its negation share nothing.
ASSUME
  LET all == [type : {"core", "crash"}, files : {{}, {"lldb.txt"}},
                    meta : {<<>>}, matches : [{"lldb.txt"} -> {{}, {"abort"}}]]
      clauses(n) == [key : {"file", "re", "type"}, name : {"lldb.txt"}, value : {"abort", "core"}, negations : {n}]
  IN  \A c \in clauses(0) :
        /\ Query(all, {[c EXCEPT !.negations = 2]}) = Query(all, {c})
        /\ Query(all, {[c EXCEPT !.negations = 1]}) = all \ Query(all, {c})
        /\ Query(all, {c, [c EXCEPT !.negations = 1]}) = {}

\* The trend ends with what every worker had at its end, and its corpus never shrinks when
\* no worker's does.
ASSUME
  LET histories == {h \in SUBSET ((1 .. 4) \X (1 .. 2) \X {1}) :
                      /\ h # {}
                      /\ \A r, s \in h : r[1] = s[1] => r = s
                      /\ \A r, s \in h : r[1] <= s[1] => r[2] <= s[2]}
      final(h) == (CHOOSE r \in h : \A s \in h : s[1] <= r[1])[2]
  IN  \A left, right \in histories : \A buckets \in {2, 3} :
        LET trend == Trend([w \in {1, 2} |-> IF w = 1 THEN left ELSE right], buckets)
            last == CHOOSE i \in DOMAIN trend : \A j \in DOMAIN trend : j <= i
        IN  /\ trend[last].corpus = final(left) + final(right)
            /\ \A i \in DOMAIN trend \ {last} : trend[i].corpus <= trend[i + 1].corpus

\* A reset and a collection are due at their inputs, unless that input is left out.
ASSUME
  LET sections(leftOut) == TrackScript([n \in 1 .. 64 |-> n \in leftOut])
  IN  /\ Len(sections({})) = 64 + 4 + 1
      /\ \A n \in 1 .. 64 : Len(sections({n})) =
           Len(sections({})) - 1 - (IF n % 16 = 0 THEN 1 ELSE 0) - (IF n = 64 THEN 1 ELSE 0)
=============================================================================
