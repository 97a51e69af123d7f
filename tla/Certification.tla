--------------------------- MODULE Certification ---------------------------
(***************************************************************************)
(* What the certify service computes: the compliance verdict of a profile  *)
(* (engine/compliance.py), the originality of texts                        *)
(* (engine/ip_verifier.py), the weighted score and its grade               *)
(* (engine/pitch_deck.py and the shared rubric), and the award that        *)
(* follows from the three.                                                 *)
(*                                                                         *)
(* Criteria are in tenths of a point, scores in hundredths, similarities   *)
(* and originality in percent: every quotient below is exact, but for the  *)
(* average of originalities, which the code takes of floats.               *)
(***************************************************************************)
EXTENDS Integers, FiniteSets, SequencesExt

CONSTANTS
  Bodies      \* the requests the module is checked on

ASSUME CertAssumption == \A b \in Bodies :
  /\ IsFiniteSet(DOMAIN b.criteria) /\ \A d \in DOMAIN b.criteria : b.criteria[d] \in Int
  /\ b.texts \in Seq(Seq(Int))

VARIABLES
  body,       \* the request to /designate
  report      \* what _build_designation made of it

certVars == <<body, report>>

-----------------------------------------------------------------------------
(* The rubric.                                                             *)

Weight == [problem |-> 10, solution |-> 15, market |-> 10, product |-> 10,
           business_model |-> 10, traction |-> 10, team |-> 10, competition |-> 10,
           financials |-> 10, clarity |-> 5]
Dimensions == DOMAIN Weight

Clamp(x) == IF x < 0 THEN 0 ELSE IF x > 100 THEN 100 ELSE x

\* A dimension nobody scored counts as zero.
WeightedScore(criteria) ==
  MapThenSumSet(LAMBDA d : Weight[d] * Clamp(criteria[d]), DOMAIN criteria)

\* The first band, from the highest, whose minimum the score reaches.
ClassifyGrade(score) ==
  IF score >= 9000 THEN "Very Great Distinction"
  ELSE IF score >= 8100 THEN "Great Distinction"
  ELSE IF score >= 7100 THEN "Distinction"
  ELSE IF score >= 6500 THEN "Certified"
  ELSE "Not Certified"

-----------------------------------------------------------------------------
(* Compliance.                                                             *)

RulesOf(jurisdiction) ==
  CASE jurisdiction = "nigeria" -> {"REG", "DATA", "TAX", "OWN", "INNOV", "JOBS"}
    [] jurisdiction = "kenya" -> {"REG", "DATA", "TAX", "OWN", "INNOV"}
    [] jurisdiction = "ethiopia" -> {"REG", "DATA", "OWN"}
    [] jurisdiction = "au" -> {"DATA", "INNOV", "JOBS"}
    [] OTHER -> {}

Regions == [nigeria |-> {"nigeria"}, kenya |-> {"kenya"}, ethiopia |-> {"ethiopia"},
            au |-> {"nigeria", "kenya", "ethiopia", "south africa", "ghana", "egypt",
                    "morocco", "tanzania", "rwanda", "senegal"}]

Holds(rule, profile, jurisdiction) ==
  CASE rule = "REG" -> profile.registered
    [] rule \in {"DATA", "OWN"} -> profile.country \in Regions[jurisdiction]
    [] rule = "TAX" -> profile.taxId
    [] rule = "INNOV" -> profile.technologies > 0
    [] rule = "JOBS" -> profile.jobs >= 5

\* Only a missing registration fails (severity "required"); whatever else does
\* not hold is "conditional".
RuleStatus(rule, profile, jurisdiction) ==
  IF Holds(rule, profile, jurisdiction) THEN "passed"
  ELSE IF rule = "REG" THEN "failed" ELSE "conditional"

RunCertification(jurisdiction, profile) ==
  LET statuses == {RuleStatus(r, profile, jurisdiction) : r \in RulesOf(jurisdiction)} IN
    CASE statuses = {} -> "unsupported"
      [] "failed" \in statuses -> "failed"
      [] "conditional" \in statuses /\ "failed" \notin statuses -> "conditional"
      [] statuses = {"passed"} -> "passed"

\* Mutant: a jurisdiction without rules does not count.
VerdictSkipsUnsupported(results) ==
  CASE results = {} -> "not_run"
    [] "failed" \in results -> "failed"
    [] "conditional" \in results /\ "failed" \notin results -> "conditional"
    [] OTHER -> "passed"

ComplianceVerdict(results) ==
  CASE results = {} -> "not_run"
    [] "failed" \in results -> "failed"
    [] "conditional" \in results /\ "failed" \notin results -> "conditional"
    [] results = {"passed"} -> "passed"
    [] OTHER -> "not_run"

-----------------------------------------------------------------------------
(* Originality.  A text is the tuple of its similarities to documents of   *)
(* the corpus; a blank text is not counted.                                *)

Originality(text) == 100 - Max({text[n] : n \in DOMAIN text} \cup {0})

TotalScore(texts) == FoldSeq(LAMBDA t, acc : Originality(t) + acc, 0, texts)

Reaches(texts, percent) == TotalScore(texts) >= percent * Len(texts)

\* The floats of three texts or more may add up to less than an exact average
\* (0.7, 0.8 and 0.9 to less than three times 0.8), those of two never do.
MayMiss(texts, percent) ==
  \/ ~Reaches(texts, percent)
  \/ TotalScore(texts) = percent * Len(texts) /\ Len(texts) > 2

\* The verdicts that are possible; no text at all has an average of 0.0.
BatchVerdict(texts) ==
  IF texts = <<>> THEN {"flagged"}
  ELSE {v \in {"original", "needs_review", "flagged"} :
          \/ v = "original" /\ Reaches(texts, 80)
          \/ v = "needs_review" /\ MayMiss(texts, 80) /\ Reaches(texts, 50)
          \/ v = "flagged" /\ MayMiss(texts, 50)}

-----------------------------------------------------------------------------
(* The designation.                                                        *)

Floor == 6500   \* of the lowest band

\* designate; the certificate id is a digest of submission, score and grade.
Graded(criteria, compliance, originality) ==
  LET score == WeightedScore(criteria)
      grade == ClassifyGrade(score)
  IN [cert |-> <<score, grade>>, score |-> score, grade |-> grade,
      award |-> IF /\ compliance = "passed"
                   /\ originality \notin {"high_similarity", "flagged", "needs_review"}
                   /\ score >= Floor
                THEN "awarded" ELSE "withheld"]

\* _build_designation: criteria of unknown dimensions are refused (400).
BuildDesignation(b) ==
  {Graded(b.criteria,
          ComplianceVerdict({RunCertification(j, b.profile) : j \in b.jurisdictions}),
          originality) : originality \in BatchVerdict(b.texts)}

NoReport == [award |-> "none"]

CertInit == body \in Bodies /\ report = NoReport

Designate ==
  /\ report = NoReport /\ DOMAIN body.criteria \subseteq Dimensions
  /\ report' \in BuildDesignation(body)
  /\ UNCHANGED body

CertNext == Designate

CertSpec == CertInit /\ [][CertNext]_certVars

-----------------------------------------------------------------------------
(* Properties.                                                             *)

(***************************************************************************)
(* What an award stands for, without the verdicts in between: the startup  *)
(* asked for some jurisdiction, every rule of every one it asked for holds *)
(* and none is unsupported, a text was checked and on average they are at  *)
(* least 80% original, and the score reaches the lowest band.  And nothing *)
(* else is asked, except that three texts or more of exactly 80% may be    *)
(* refused: their floats may add up to less.                               *)
(***************************************************************************)
Deserved ==
  /\ body.jurisdictions # {}
  /\ \A j \in body.jurisdictions :
       RulesOf(j) # {} /\ \A r \in RulesOf(j) : Holds(r, body.profile, j)
  /\ body.texts # <<>> /\ Reaches(body.texts, 80)
  /\ report.grade # "Not Certified"

AwardIsEarned ==
  report # NoReport =>
    /\ report.award = "awarded" => Deserved
    /\ Deserved /\ ~MayMiss(body.texts, 80) => report.award = "awarded"
=============================================================================
