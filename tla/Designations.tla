---------------------------- MODULE Designations ----------------------------
(***************************************************************************)
(* The evaluations of one submission (intake routes/evaluators.py and      *)
(* evaluations.py, scoring.py), the request for its certificate            *)
(* (certify_idea in ideas.py), and the designation that the certify        *)
(* service keeps of it (routes/certify.py, store.py).                      *)
(*                                                                         *)
(* As in IdeaQueue, a request works on a copy it read without a lock and   *)
(* its UPDATE names the columns it changed in that copy.  Only             *)
(* certificate_id is unique in the table of designations, not              *)
(* submission_id.                                                          *)
(*                                                                         *)
(* Simplifications.  An evaluator's criteria are one of Sheets.  The row   *)
(* keeps certificate id, score, grade and designation; rubric, compliance  *)
(* and originality are columns like them, and the audit trail of a request *)
(* is thrown away with it.                                                 *)
(***************************************************************************)
EXTENDS Certification

CONSTANTS
  Evaluators,  \* users who may register as evaluators
  Founder,     \* the user who submitted the idea, maybe one of them
  Sheets,      \* the criteria an evaluator may give
  Decks,       \* the requests that reach /designate directly
  VoteCalls,   \* slots for evaluations in flight
  DesCalls,    \* slots for designations in flight
  RowIds       \* bound on the designation rows

ASSUME DesAssumption ==
  /\ IsFiniteSet(RowIds)
  /\ \A s \in Sheets : \A d \in DOMAIN s : s[d] \in Int
  /\ \A b \in Decks : \A d \in DOMAIN b.criteria : b.criteria[d] \in Int

VARIABLES
  profile,   \* evaluators' profiles: "none", "pending" or "approved"
  ballot,    \* the rows of pitch_evaluations, in the order of created_at
  vote,      \* evaluations in flight, past their checks
  row,       \* the rows of designations
  des        \* designations in flight

desVars == <<profile, ballot, vote, row, des>>

NoVote == <<>>
NoRecord == [award |-> "absent"]
NoDes == [at |-> "idle"]
Columns == {"cert", "score", "grade", "award"}
Grades == {"Very Great Distinction", "Great Distinction", "Distinction", "Certified",
           "Not Certified"}
Scores == 0..10000
Records == [cert : Scores \X Grades, score : Scores, grade : Grades,
            award : {"awarded", "withheld"}]

DesTypeOK ==
  /\ profile \in [Evaluators -> {"none", "pending", "approved"}]
  /\ \A n \in DOMAIN ballot : ballot[n] \in (Evaluators \ {Founder}) \X Sheets
  /\ \A m, n \in DOMAIN ballot : ballot[m][1] = ballot[n][1] => m = n
  /\ \A v \in VoteCalls : vote[v] = NoVote \/ vote[v] \in Evaluators \X Sheets
  /\ \A r \in RowIds : row[r] \in Records \cup {NoRecord}
  /\ \A d \in DesCalls : des[d] = NoDes \/
       /\ des[d].at \in {"graded", "loaded"} /\ des[d].new \in Records
       /\ des[d].on \subseteq RowIds /\ DOMAIN des[d].set \subseteq Columns
       /\ des[d].late \in BOOLEAN

DesInit ==
  /\ profile = [e \in Evaluators |-> "none"] /\ ballot = <<>>
  /\ vote = [v \in VoteCalls |-> NoVote]
  /\ row = [r \in RowIds |-> NoRecord] /\ des = [d \in DesCalls |-> NoDes]

-----------------------------------------------------------------------------
(* Evaluators and their evaluations.                                       *)

RegisterEvaluator(e) ==
  /\ profile[e] = "none"
  /\ profile' = [profile EXCEPT ![e] = "pending"]
  /\ UNCHANGED <<ballot, vote, row, des>>

\* Any authenticated user may approve.
ApproveEvaluator(e) ==
  /\ profile[e] = "pending"
  /\ profile' = [profile EXCEPT ![e] = "approved"]
  /\ UNCHANGED <<ballot, vote, row, des>>

Voters == {ballot[n][1] : n \in DOMAIN ballot}

\* submit_evaluation up to its INSERT: approved, not the founder, not twice.
CheckVote(v, e) ==
  /\ vote[v] = NoVote /\ profile[e] = "approved" /\ e # Founder /\ e \notin Voters
  /\ \E s \in Sheets : vote' = [vote EXCEPT ![v] = <<e, s>>]
  /\ UNCHANGED <<profile, ballot, row, des>>

\* The INSERT, under the unique constraint uq_pitch_eval.
InsertVote(v) ==
  /\ vote[v] # NoVote
  /\ ballot' = IF vote[v][1] \in Voters THEN ballot ELSE Append(ballot, vote[v])
  /\ vote' = [vote EXCEPT ![v] = NoVote]
  /\ UNCHANGED <<profile, row, des>>

\* The numbers of some evaluations, those with a lower score first.
Ascending(score) ==
  CHOOSE q \in [1..Cardinality(DOMAIN score) -> DOMAIN score] :
    IsInjective(q) /\ \A i, j \in DOMAIN q : i < j => score[q[i]] <= score[q[j]]

Median(score) ==
  LET q == Ascending(score)
      n == Len(q)
  IN (score[q[(n + 1) \div 2]] + score[q[n \div 2 + 1]]) \div 2

\* Per dimension the median of those who scored it; a dimension nobody scored is
\* left out.
RubricBreakdown(sheets) ==
  LET scored(d) == {n \in DOMAIN sheets : d \in DOMAIN sheets[n]} IN
    [d \in {e \in Dimensions : scored(e) # {}} |->
       Median([n \in scored(d) |-> sheets[n][d]])]

-----------------------------------------------------------------------------
(* Designations.                                                           *)

Grade(d, result) ==
  /\ des[d] = NoDes
  /\ des' = [des EXCEPT ![d] = [at |-> "graded", new |-> result, on |-> {},
                                set |-> <<>>, late |-> FALSE]]
  /\ UNCHANGED <<profile, ballot, vote, row>>

\* certify_idea: medians, but neither a jurisdiction nor a text.
CertifyIdea(d) ==
  /\ ballot # <<>>
  /\ \E result \in BuildDesignation(
          [criteria |-> RubricBreakdown([n \in DOMAIN ballot |-> ballot[n][2]]),
           jurisdictions |-> {}, texts |-> <<>>]) : Grade(d, result)

\* POST /designate or /designate/pdf.
DesignateDirectly(d) ==
  \E b \in Decks :
    DOMAIN b.criteria \subseteq Dimensions /\ \E result \in BuildDesignation(b) : Grade(d, result)

Present == {r \in RowIds : row[r] # NoRecord}

\* Mutant: a designation keeps the certificate id of its first version.
ChangedKeepsId(old, new) ==
  [f \in {g \in Columns \ {"cert"} : old[g] # new[g]} |-> new[f]]

\* The columns the ORM will write.
ChangedColumns(old, new) == [f \in {g \in Columns : old[g] # new[g]} |-> new[f]]

\* Mutant: a row that is there is not looked for.
FindRowNever(d) ==
  /\ des[d] # NoDes /\ des[d].at = "graded"
  /\ des' = [des EXCEPT ![d].at = "loaded", ![d].set = des[d].new]
  /\ UNCHANGED <<profile, ballot, vote, row>>

\* upsert_designation, the SELECT: with two rows scalar_one_or_none raises.
FindRow(d) ==
  /\ des[d] # NoDes /\ des[d].at = "graded"
  /\ des' = IF Cardinality(Present) > 1 THEN [des EXCEPT ![d] = NoDes]
            ELSE [des EXCEPT ![d].at = "loaded", ![d].on = Present,
                   ![d].set = IF Present = {} THEN des[d].new
                              ELSE ChangedColumns(row[CHOOSE r \in Present : TRUE], des[d].new)]
  /\ UNCHANGED <<profile, ballot, vote, row>>

TakenBy(cert) == {r \in Present : row[r].cert = cert}

\* The INSERT or UPDATE and the commit; 500 when another row has the id.
WriteRow(d) ==
  /\ des[d] # NoDes /\ des[d].at = "loaded"
  /\ LET set == des[d].set
         clash == "cert" \in DOMAIN set /\ TakenBy(set.cert) \ des[d].on # {}
     IN
       IF clash THEN UNCHANGED row
       ELSE IF des[d].on = {}
       THEN \E r \in RowIds \ Present : row' = [row EXCEPT ![r] = set]
       ELSE row' = [r \in RowIds |-> IF r \notin des[d].on THEN row[r]
                      ELSE [f \in Columns |-> IF f \in DOMAIN set THEN set[f] ELSE row[r][f]]]
  /\ des' = [e \in DesCalls |->
       IF e = d THEN NoDes
       ELSE IF des[e] # NoDes /\ des[d].on = {} /\ row' # row /\ des[e].at = "loaded"
       THEN [des[e] EXCEPT !.late = TRUE] ELSE des[e]]
  /\ UNCHANGED <<profile, ballot, vote>>

\* The instance dies, or the intake's call is cut off before it was made.
AbortDes(d) ==
  /\ des[d] # NoDes
  /\ des' = [des EXCEPT ![d] = NoDes]
  /\ UNCHANGED <<profile, ballot, vote, row>>

DesNext ==
  \/ \E e \in Evaluators : RegisterEvaluator(e) \/ ApproveEvaluator(e)
  \/ \E v \in VoteCalls : InsertVote(v) \/ \E e \in Evaluators : CheckVote(v, e)
  \/ \E d \in DesCalls :
       CertifyIdea(d) \/ DesignateDirectly(d) \/ FindRow(d) \/ WriteRow(d) \/ AbortDes(d)

DesSpec == DesInit /\ [][DesNext]_desVars

-----------------------------------------------------------------------------
(* Properties.                                                             *)

(***************************************************************************)
(* A submission gets a second row only from a call that had looked for the *)
(* first one before it was there ("one per submission", designation.py     *)
(* 16).                                                                    *)
(***************************************************************************)
SecondRowOnlyInOverlap ==
  [][\A d \in DesCalls :
       Present # {} /\ Present' # Present /\ des[d] # NoDes /\ des'[d] = NoDes
         => des[d].late]_<<row, des>>

(***************************************************************************)
(* Overlapping designations write different columns of one row, yet the    *)
(* certificate id is always the digest of the score printed next to it,    *)
(* with the grade of that score; two rows never share it.                  *)
(***************************************************************************)
IdMatchesScore ==
  \A r \in Present :
    /\ row[r].cert = <<row[r].score, ClassifyGrade(row[r].score)>>
    /\ TakenBy(row[r].cert) = {r}

(***************************************************************************)
(* "the printed certificate is reproducible and auditable" (pitch_deck.py  *)
(* 4): the grade on it is the grade of its score, and no award is below    *)
(* the lowest band.                                                        *)
(***************************************************************************)
GradeMatchesScore ==
  \A r \in Present :
    /\ row[r].grade = ClassifyGrade(row[r].score)
    /\ row[r].award = "awarded" => row[r].score >= Floor
=============================================================================
