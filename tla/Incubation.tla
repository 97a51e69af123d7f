---------------------------- MODULE Incubation -----------------------------
(***************************************************************************)
(* Funding opportunities: the seeder that fills their table                *)
(* (seeds/opportunity_seeder.py) and the matching of a startup with them   *)
(* (routes/matching.py, engine/matching.py).                               *)
(*                                                                         *)
(* A seeding looks for each title, adds those it did not find and commits  *)
(* at the end; titles are not unique, and a title that is there twice      *)
(* makes the look raise.  match reads a page of the table, in no order.    *)
(*                                                                         *)
(* Simplifications.  Scores are in percent.  No embeddings are ever given, *)
(* so that the semantic score is the default 0.80; sector and stage only   *)
(* make texts; a profile's country stands for its region too, which is     *)
(* never NULL (the match of such a profile is a 500 and changes nothing).  *)
(* Autofill and the grant writer are left out.                             *)
(***************************************************************************)
EXTENDS Integers, SequencesExt

CONSTANTS
  Titles,       \* SEEDED_OPPORTUNITIES, a sequence of titles
  RegionsOf,    \* of each title: eligible_regions
  Countries,    \* of profiles
  MinScores, TopKs, PageSize,
  Seeders,      \* slots for seedings
  OppRows       \* row ids, numbers

ASSUME IncubationAssumption ==
  /\ IsFiniteSet(OppRows) /\ Titles \in Seq(ToSet(Titles)) /\ "no row" \notin ToSet(Titles)
  /\ PageSize \in Nat \ {0} /\ TopKs \subseteq Nat \ {0} /\ MinScores \subseteq 0..100

VARIABLES
  opp,          \* the title of each row of opportunities
  seed,         \* seedings in flight: what they have looked for and will add
  offers,       \* history: the last match since a seeding, and what it was asked
  doubled       \* history: seedings overlapped

incubationVars == <<opp, seed, offers, doubled>>

NoOpp == "no row"
NoSeed == [at |-> 0]
NoOffers == [top |-> 0]

IncubationTypeOK ==
  /\ opp \in [OppRows -> ToSet(Titles) \cup {NoOpp}]
  /\ \A s \in Seeders : seed[s] = NoSeed \/
       /\ seed[s].at \in 1..Len(Titles) + 1 /\ seed[s].adds \subseteq ToSet(Titles)
       /\ seed[s].late \in BOOLEAN
  /\ offers = NoOffers \/
       /\ offers.top \in TopKs /\ offers.least \in MinScores /\ offers.country \in Countries
       /\ ToSet(offers.rows) \subseteq OppRows
  /\ doubled \in BOOLEAN

IncubationInit ==
  /\ opp = [r \in OppRows |-> NoOpp] /\ seed = [s \in Seeders |-> NoSeed]
  /\ offers = NoOffers /\ doubled = FALSE

-----------------------------------------------------------------------------
(* Seeding.                                                                *)

Active == {r \in OppRows : opp[r] # NoOpp}
Titled(t) == {r \in Active : opp[r] = t}

BeginSeed(s) ==
  /\ seed[s] = NoSeed
  /\ seed' = [seed EXCEPT ![s] = [at |-> 1, adds |-> {}, late |-> FALSE]]
  /\ UNCHANGED <<opp, offers, doubled>>

\* One round of the loop; scalar_one_or_none raises on two rows.
LookForTitle(s) ==
  /\ seed[s] # NoSeed /\ seed[s].at <= Len(Titles)
  /\ LET t == Titles[seed[s].at] IN
       seed' = [seed EXCEPT ![s] =
         IF Cardinality(Titled(t)) > 1 THEN NoSeed
         ELSE [seed[s] EXCEPT !.at = @ + 1,
                              !.adds = IF Titled(t) = {} THEN @ \cup {t} ELSE @]]
  /\ UNCHANGED <<opp, offers, doubled>>

CommitSeed(s) ==
  /\ seed[s] # NoSeed /\ seed[s].at > Len(Titles)
  /\ \E rows \in [seed[s].adds -> OppRows \ Active] :
       /\ IsInjective(rows)
       /\ opp' = [r \in OppRows |-> IF \E t \in seed[s].adds : rows[t] = r
                    THEN CHOOSE t \in seed[s].adds : rows[t] = r ELSE opp[r]]
  /\ doubled' = (doubled \/ (seed[s].late /\ seed[s].adds # {}))
  /\ seed' = [u \in Seeders |-> IF u = s THEN NoSeed
                ELSE IF seed[u] # NoSeed THEN [seed[u] EXCEPT !.late = TRUE] ELSE seed[u]]
  /\ offers' = NoOffers

AbortSeed(s) ==
  /\ seed[s] # NoSeed
  /\ seed' = [seed EXCEPT ![s] = NoSeed]
  /\ UNCHANGED <<opp, offers, doubled>>

-----------------------------------------------------------------------------
(* Matching.                                                               *)

Eligible(country, regions) ==
  regions = {} \/ {"pan-african", "global", country} \cap regions # {}

Score(country, r) == IF Eligible(country, RegionsOf[opp[r]]) THEN 80 ELSE 48

\* The rows of a set as a list, in any order.
Lists(rows) == {q \in [1..Cardinality(rows) -> rows] : IsInjective(q)}

\* Mutant: the page is not sorted.
SortedNever(kept, country) == Lists(kept)

\* matches.sort: rows of one score stay as the page has them, and a page has no order.
SortedMatches(kept, country) ==
  {q \in Lists(kept) : \A i, j \in DOMAIN q : i < j => Score(country, q[i]) >= Score(country, q[j])}

TopMatches(page, country, least, top) ==
  LET kept == {r \in page : Score(country, r) >= least}
      n == Cardinality(kept)
  IN {SubSeq(q, 1, IF n < top THEN n ELSE top) : q \in SortedMatches(kept, country)}

\* match_opportunities.
MatchOpportunities(country, least, top) ==
  LET n == IF Cardinality(Active) < PageSize THEN Cardinality(Active) ELSE PageSize IN
    /\ \E page \in SUBSET Active :
         /\ Cardinality(page) = n
         /\ \E rows \in TopMatches(page, country, least, top) :
              offers' = [rows |-> rows, country |-> country, least |-> least, top |-> top]
    /\ UNCHANGED <<opp, seed, doubled>>

IncubationNext ==
  \/ \E s \in Seeders : BeginSeed(s) \/ LookForTitle(s) \/ CommitSeed(s) \/ AbortSeed(s)
  \/ \E country \in Countries, least \in MinScores, top \in TopKs :
       MatchOpportunities(country, least, top)

IncubationSpec == IncubationInit /\ [][IncubationNext]_incubationVars

-----------------------------------------------------------------------------
(* Properties.                                                             *)

(***************************************************************************)
(* Unless two seedings overlapped, a startup is not offered a programme    *)
(* twice; and while the table fits on a page, no opportunity it was not    *)
(* offered is better than one it was, nor good enough for a free place.    *)
(***************************************************************************)
OffersAreBest ==
  offers # NoOffers =>
    LET shown == ToSet(offers.rows)
        score(r) == Score(offers.country, r)
        missed == {r \in Active \ shown : score(r) >= offers.least}
    IN
      /\ ~doubled => \A t \in ToSet(Titles) : Cardinality(Titled(t) \cap shown) <= 1
      /\ Cardinality(Active) <= PageSize =>
           \A r \in missed : Len(offers.rows) = offers.top /\ \A q \in shown : score(q) >= score(r)
=============================================================================
