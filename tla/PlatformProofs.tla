--------------------------- MODULE PlatformProofs ---------------------------
(***************************************************************************)
(* Proofs about the platform and incubate services: Tenancy, for any       *)
(* organizations, names and overlapping creations; Incubation, for any     *)
(* titles, rows, seedings and pages.                                       *)
(***************************************************************************)
EXTENDS Tenancy, Incubation, FiniteSetTheorems, TLAPS

-----------------------------------------------------------------------------
(* Projects and their slugs.                                               *)

\* A creation that has counted and is not late has no project like its own.
CountStillHolds ==
  \A c \in Creates : create[c] # NoCreate /\ ~create[c].late => Alike(create[c].slug) = {}

TenancyInv == TenancyTypeOK /\ CountStillHolds /\ SlugSharedOnlyInOverlap

ProjectRows ==
  [status : {"draft", "live", "deleted"}, org : Orgs \cup {Outside}, slug : Names,
   profile : BOOLEAN]
Counted == [at : {"counted"}, org : Orgs \cup {Outside}, slug : Names, late : BOOLEAN]

LEMMA PrefixOfItself == ASSUME NEW slug \in Names PROVE IsPrefix(slug, slug)
<1>1. Len(slug) \in Nat BY TenancyAssumption
<1> QED BY <1>1 DEF IsPrefix

LEMMA KeptRows == TenancyTypeOK => \A p \in Kept : p \in Projects /\ project[p] \in ProjectRows
  BY DEF TenancyTypeOK, Kept, ProjectRows

\* Nothing but an INSERT makes two projects share a slug, or a slug be in use
\* that was free when it was counted: the rows keep their slugs, and their
\* organization unless it is deleted.
LEMMA SlugsKept ==
  ASSUME TenancyInv, NEW o,
         Kept' = Kept, UNCHANGED <<create, twin>>,
         \A p \in Kept : project'[p].slug = project[p].slug,
         \/ \A p \in Kept : project'[p].org = project[p].org
         \/ \A p \in Kept : project'[p].org = IF project[p].org = o THEN Outside ELSE project[p].org
  PROVE  CountStillHolds' /\ SlugSharedOnlyInOverlap'
<1>1. CountStillHolds' BY DEF TenancyInv, CountStillHolds, Alike
<1>2. SlugSharedOnlyInOverlap' BY DEF TenancyInv, SlugSharedOnlyInOverlap
<1> QED BY <1>1, <1>2

\* One project's row changes in its status or its profile.
LEMMA RowKept ==
  ASSUME TenancyInv, NEW p \in Kept, NEW row \in ProjectRows,
         row.slug = project[p].slug, row.org = project[p].org,
         project' = [project EXCEPT ![p] = row], UNCHANGED <<role, create, twin>>
  PROVE  TenancyInv'
<1>1. p \in Projects /\ TenancyTypeOK BY KeptRows DEF TenancyInv
<1>2. project'[p] = row /\ \A q \in Projects \ {p} : project'[q] = project[q]
  BY <1>1 DEF TenancyTypeOK
<1>3. row # NoProject BY DEF ProjectRows, NoProject
<1>4. Kept' = Kept BY <1>2, <1>3 DEF Kept
<1>5. TenancyTypeOK' BY <1>1 DEF TenancyTypeOK, ProjectRows
<1>6. \A q \in Kept : project'[q].slug = project[q].slug /\ project'[q].org = project[q].org
  BY <1>2 DEF Kept
<1>7. CountStillHolds' /\ SlugSharedOnlyInOverlap' BY <1>4, <1>6, SlugsKept
<1> QED BY <1>5, <1>7 DEF TenancyInv

LEMMA MembersKeep ==
  ASSUME TenancyInv, NEW o \in Orgs, NEW u \in Members
  PROVE  /\ CreateOrganization(o, u) => TenancyInv'
         /\ \A v \in Members : RemoveMember(o, u, v) => TenancyInv'
         /\ \A v \in Members, r \in {"member", "admin", "owner"} : AddMember(o, u, v, r) => TenancyInv'
<1>1. ASSUME NEW v \in Members, NEW r \in {"none", "member", "admin", "owner"},
             role' = [role EXCEPT ![o][v] = r], UNCHANGED <<project, create, twin>>
      PROVE  TenancyInv'
  <2>1. TenancyTypeOK' BY <1>1 DEF TenancyInv, TenancyTypeOK
  <2>2. CountStillHolds' /\ SlugSharedOnlyInOverlap'
    BY <1>1 DEF TenancyInv, CountStillHolds, Alike, Kept, SlugSharedOnlyInOverlap
  <2> QED BY <2>1, <2>2 DEF TenancyInv
<1>2. CreateOrganization(o, u) => TenancyInv' BY <1>1 DEF CreateOrganization
<1>3. \A v \in Members : RemoveMember(o, u, v) => TenancyInv' BY <1>1 DEF RemoveMember
<1>4. \A v \in Members, r \in {"member", "admin", "owner"} : AddMember(o, u, v, r) => TenancyInv'
  BY <1>1 DEF AddMember
<1> QED BY <1>2, <1>3, <1>4

LEMMA DropKeeps ==
  ASSUME TenancyInv, NEW o \in Orgs, NEW u \in Members, DeleteOrganization(o, u)
  PROVE  TenancyInv'
<1> DEFINE row(p) == IF project[p] # NoProject /\ project[p].org = o
                     THEN [project[p] EXCEPT !.org = Outside] ELSE project[p]
<1>1. /\ role' = [role EXCEPT ![o] = [v \in Members |-> "none"]]
      /\ project' = [p \in Projects |-> row(p)] /\ UNCHANGED <<create, twin>>
  BY DEF DeleteOrganization
<1>2. ASSUME NEW p \in Kept
      PROVE  /\ row(p) \in ProjectRows /\ row(p) # NoProject /\ row(p).slug = project[p].slug
             /\ row(p).org = IF project[p].org = o THEN Outside ELSE project[p].org
  <2>1. project[p] \in ProjectRows BY KeptRows DEF TenancyInv
  <2> QED BY <2>1 DEF ProjectRows, NoProject
<1>3. \A p \in Projects \ Kept : row(p) = NoProject BY DEF Kept
<1>4. Kept' = Kept BY <1>1, <1>2, <1>3 DEF Kept
<1>5. TenancyTypeOK'
  <2>1. role' \in [Orgs -> [Members -> {"none", "member", "admin", "owner"}]]
    BY <1>1 DEF TenancyInv, TenancyTypeOK
  <2>2. project' \in [Projects -> {NoProject} \cup ProjectRows] BY <1>1, <1>2, <1>3
  <2> QED BY <1>1, <2>1, <2>2 DEF TenancyInv, TenancyTypeOK, ProjectRows
<1>6. \A p \in Kept : /\ project'[p].slug = project[p].slug
                      /\ project'[p].org = IF project[p].org = o THEN Outside ELSE project[p].org
  BY <1>1, <1>2, KeptRows DEF TenancyInv
<1>7. CountStillHolds' /\ SlugSharedOnlyInOverlap' BY <1>1, <1>4, <1>6, SlugsKept
<1> QED BY <1>5, <1>7 DEF TenancyInv

LEMMA CountKeeps ==
  ASSUME TenancyInv, NEW c \in Creates, NEW o \in Orgs \cup {Outside}, NEW slug \in Names,
         CountSlugs(c, o, slug)
  PROVE  TenancyInv'
<1> DEFINE new == [at |-> "counted", org |-> o, slug |-> slug, late |-> FALSE]
<1>1. /\ Alike(slug) = {} /\ create' = [create EXCEPT ![c] = new]
      /\ UNCHANGED <<role, project, twin>>
  BY DEF CountSlugs
<1>2. new \in Counted BY DEF Counted
<1>3. TenancyTypeOK' BY <1>1, <1>2 DEF TenancyInv, TenancyTypeOK, Counted
<1>4. create'[c] = new /\ \A d \in Creates \ {c} : create'[d] = create[d]
  BY <1>1 DEF TenancyInv, TenancyTypeOK
<1>5. CountStillHolds' BY <1>1, <1>4 DEF TenancyInv, CountStillHolds, Alike, Kept
<1>6. SlugSharedOnlyInOverlap' BY <1>1 DEF TenancyInv, SlugSharedOnlyInOverlap, Kept
<1> QED BY <1>3, <1>5, <1>6 DEF TenancyInv

LEMMA InsertKeeps == ASSUME TenancyInv, NEW c \in Creates, InsertProject(c) PROVE TenancyInv'
<1> DEFINE new == create[c]
           row == [status |-> "draft", org |-> new.org, slug |-> new.slug, profile |-> FALSE]
           fails == \/ new.org \notin Homes
                    \/ \E p \in Kept : /\ new.org # Outside /\ project[p].org = new.org
                                       /\ project[p].slug = new.slug
           next(d) == IF d = c THEN NoCreate
                      ELSE IF create[d] # NoCreate /\ IsPrefix(create[d].slug, new.slug)
                      THEN [create[d] EXCEPT !.late = TRUE] ELSE create[d]
<1>1. create[c] # NoCreate /\ role' = role BY DEF InsertProject
<1>2. new \in Counted BY <1>1 DEF TenancyInv, TenancyTypeOK, Counted
<1>3. row \in ProjectRows /\ row # NoProject BY <1>2 DEF Counted, ProjectRows, NoProject
<1>4. CASE create' = [create EXCEPT ![c] = NoCreate] /\ UNCHANGED <<project, twin>>
  <2>1. TenancyTypeOK' BY <1>1, <1>4 DEF TenancyInv, TenancyTypeOK
  <2>2. create'[c] = NoCreate /\ \A d \in Creates \ {c} : create'[d] = create[d]
    BY <1>4 DEF TenancyInv, TenancyTypeOK
  <2>3. CountStillHolds' BY <1>4, <2>2 DEF TenancyInv, CountStillHolds, Alike, Kept
  <2>4. SlugSharedOnlyInOverlap' BY <1>4 DEF TenancyInv, SlugSharedOnlyInOverlap, Kept
  <2> QED BY <2>1, <2>3, <2>4 DEF TenancyInv
<1>5. ASSUME NEW p \in Projects \ Kept, ~fails,
             project' = [project EXCEPT ![p] = row],
             twin' = IF new.late THEN twin \cup {p} ELSE twin,
             create' = [d \in Creates |-> next(d)]
      PROVE  TenancyInv'
  <2>1. project'[p] = row /\ \A q \in Projects \ {p} : project'[q] = project[q]
    BY <1>5 DEF TenancyInv, TenancyTypeOK
  <2>2. Kept' = Kept \cup {p} BY <1>3, <2>1 DEF Kept
  <2>3. \A q \in Kept : q # p /\ project'[q] = project[q] BY <2>1, KeptRows DEF TenancyInv
  <2>4. \A d \in Creates : next(d) \in {NoCreate} \cup Counted
    <3> SUFFICES ASSUME NEW d \in Creates PROVE next(d) \in {NoCreate} \cup Counted OBVIOUS
    <3>1. create[d] \in {NoCreate} \cup Counted BY DEF TenancyInv, TenancyTypeOK, Counted
    <3>2. create[d] # NoCreate => [create[d] EXCEPT !.late = TRUE] \in Counted
      BY <3>1 DEF Counted
    <3> QED BY <3>1, <3>2
  <2>5. TenancyTypeOK'
    <3>1. project' \in [Projects -> {NoProject} \cup ProjectRows]
      BY <1>3, <1>5 DEF TenancyInv, TenancyTypeOK, ProjectRows
    <3>2. create' \in [Creates -> {NoCreate} \cup Counted] BY <1>5, <2>4
    <3>3. twin' \subseteq Projects BY <1>5 DEF TenancyInv, TenancyTypeOK
    <3> QED BY <1>1, <3>1, <3>2, <3>3 DEF TenancyInv, TenancyTypeOK, ProjectRows, Counted
  <2>6. CountStillHolds'
    <3> SUFFICES ASSUME NEW d \in Creates, next(d) # NoCreate, ~next(d).late,
                        NEW q \in Kept \cup {p}, IsPrefix(next(d).slug, project'[q].slug)
                 PROVE  FALSE
      BY <1>5, <2>2 DEF CountStillHolds, Alike
    <3>1. d # c /\ create[d] # NoCreate OBVIOUS
    <3>2. create[d] \in Counted BY <3>1 DEF TenancyInv, TenancyTypeOK, Counted
    <3>3. next(d) = create[d] /\ ~IsPrefix(create[d].slug, new.slug)
      BY <3>1, <3>2 DEF Counted
    <3>4. q \in Kept BY <2>1, <3>3
    <3> QED BY <2>3, <3>1, <3>3, <3>4 DEF TenancyInv, CountStillHolds, Alike
  <2>7. SlugSharedOnlyInOverlap'
    <3>1. \A q \in Kept : project[q].slug = new.slug =>
            new.late /\ (new.org = Outside \/ project[q].org # new.org)
      <4> SUFFICES ASSUME NEW q \in Kept, project[q].slug = new.slug
                   PROVE  new.late /\ (new.org = Outside \/ project[q].org # new.org)
        OBVIOUS
      <4>1. IsPrefix(new.slug, project[q].slug) BY <1>2, PrefixOfItself DEF Counted
      <4>2. Alike(new.slug) # {} BY <4>1 DEF Alike
      <4>3. new.late BY <1>1, <4>2 DEF TenancyInv, CountStillHolds
      <4> QED BY <1>5, <4>3
    <3>2. twin \subseteq twin' BY <1>5
    <3>3. new.late => p \in twin' BY <1>5
    <3> SUFFICES ASSUME NEW x \in Kept \cup {p}, NEW y \in Kept \cup {p}, x # y,
                        project'[x].slug = project'[y].slug
                 PROVE  /\ x \in twin' \/ y \in twin'
                        /\ project'[x].org # project'[y].org \/ project'[x].org = Outside
      BY <2>2 DEF SlugSharedOnlyInOverlap
    <3>4. CASE x \in Kept /\ y \in Kept
      BY <2>3, <3>2, <3>4 DEF TenancyInv, SlugSharedOnlyInOverlap
    <3>5. CASE x = p /\ y \in Kept BY <2>1, <2>3, <3>1, <3>3, <3>5
    <3>6. CASE y = p /\ x \in Kept BY <2>1, <2>3, <3>1, <3>3, <3>6
    <3> QED BY <3>4, <3>5, <3>6
  <2> QED BY <2>5, <2>6, <2>7 DEF TenancyInv
<1> QED BY <1>4, <1>5 DEF InsertProject

LEMMA TenancyInvStep == TenancyInv /\ [TenancyNext]_tenancyVars => TenancyInv'
<1> SUFFICES ASSUME TenancyInv, [TenancyNext]_tenancyVars PROVE TenancyInv' OBVIOUS
<1>1. ASSUME NEW o \in Orgs, NEW u \in Members, CreateOrganization(o, u) PROVE TenancyInv'
  BY <1>1, MembersKeep
<1>2. ASSUME NEW o \in Orgs, NEW u \in Members, NEW v \in Members,
             RemoveMember(o, u, v) \/ \E r \in {"member", "admin", "owner"} : AddMember(o, u, v, r)
      PROVE  TenancyInv'
  BY <1>2, MembersKeep
<1>3. ASSUME NEW o \in Orgs, NEW u \in Members, DeleteOrganization(o, u) PROVE TenancyInv'
  BY <1>3, DropKeeps
<1>4. ASSUME NEW c \in Creates, NEW o \in Orgs \cup {Outside}, NEW slug \in Names,
             CountSlugs(c, o, slug)
      PROVE  TenancyInv'
  BY <1>4, CountKeeps
<1>5. ASSUME NEW c \in Creates, InsertProject(c) PROVE TenancyInv' BY <1>5, InsertKeeps
<1>6. ASSUME NEW p \in Projects, NEW status \in {"live", "deleted"}, UpdateProject(p, status)
      PROVE  TenancyInv'
  <2> DEFINE row == [project[p] EXCEPT !.status = status]
  <2>1. p \in Kept /\ project' = [project EXCEPT ![p] = row] /\ UNCHANGED <<role, create, twin>>
    BY <1>6 DEF UpdateProject
  <2>2. row \in ProjectRows /\ row.slug = project[p].slug /\ row.org = project[p].org
    BY <2>1, KeptRows DEF TenancyInv, ProjectRows
  <2> QED BY <2>1, <2>2, RowKept
<1>7. ASSUME NEW p \in Projects, CreateProfile(p) PROVE TenancyInv'
  <2> DEFINE row == [project[p] EXCEPT !.profile = TRUE]
  <2>1. p \in Kept /\ project' = [project EXCEPT ![p] = row] /\ UNCHANGED <<role, create, twin>>
    BY <1>7 DEF CreateProfile
  <2>2. row \in ProjectRows /\ row.slug = project[p].slug /\ row.org = project[p].org
    BY <2>1, KeptRows DEF TenancyInv, ProjectRows
  <2> QED BY <2>1, <2>2, RowKept
<1>8. CASE UNCHANGED tenancyVars
  BY <1>8 DEF tenancyVars, TenancyInv, TenancyTypeOK, CountStillHolds, Alike, Kept,
              SlugSharedOnlyInOverlap
<1> QED BY <1>1, <1>2, <1>3, <1>4, <1>5, <1>6, <1>7, <1>8 DEF TenancyNext, DeleteProject

LEMMA TenancyInvAlways == TenancySpec => []TenancyInv
<1>1. TenancyInit => TenancyInv
  BY DEF TenancyInit, TenancyInv, TenancyTypeOK, CountStillHolds, SlugSharedOnlyInOverlap, Kept
<1> QED BY <1>1, TenancyInvStep, PTL DEF TenancySpec

\* Organizations, projects and creations in flight are of their types.
THEOREM TenancyTypes == TenancySpec => []TenancyTypeOK
<1>1. TenancyInv => TenancyTypeOK BY DEF TenancyInv
<1> QED BY <1>1, TenancyInvAlways, PTL

(***************************************************************************)
(* A slug is shared only by projects whose creations overlapped, and never *)
(* within an organization (routes/projects.py, create_project).            *)
(***************************************************************************)
THEOREM SlugsSharedInOverlap == TenancySpec => []SlugSharedOnlyInOverlap
<1>1. TenancyInv => SlugSharedOnlyInOverlap BY DEF TenancyInv
<1> QED BY <1>1, TenancyInvAlways, PTL

-----------------------------------------------------------------------------
(* Funding opportunities: their seeding and the matching of a startup.     *)

Seedings == [at : 1..Len(Titles) + 1, adds : SUBSET ToSet(Titles), late : BOOLEAN]

\* A title is there once unless seedings overlapped, and a seeding that no other
\* one has overtaken adds titles that are not there.
TitlesOnce ==
  /\ ~doubled => \A r, q \in Active : opp[r] = opp[q] => r = q
  /\ \A s \in Seeders : seed[s] # NoSeed /\ ~seed[s].late =>
       \A r \in Active : opp[r] \notin seed[s].adds

SeedInv ==
  /\ opp \in [OppRows -> ToSet(Titles) \cup {NoOpp}]
  /\ seed \in [Seeders -> Seedings \cup {NoSeed}]
  /\ doubled \in BOOLEAN
  /\ TitlesOnce

LEMMA TitlesAreTitles ==
  /\ Len(Titles) \in Nat /\ NoOpp \notin ToSet(Titles)
  /\ \A n \in 1..Len(Titles) : Titles[n] \in ToSet(Titles)
<1>1. PICK S : Titles \in Seq(S) BY IncubationAssumption, Zenon
<1>2. DOMAIN Titles = 1..Len(Titles) /\ Len(Titles) \in Nat BY <1>1
<1> QED BY <1>2, IncubationAssumption DEF ToSet, NoOpp

LEMMA SeedInvStep == SeedInv /\ [IncubationNext]_incubationVars => SeedInv'
<1> SUFFICES ASSUME SeedInv, [IncubationNext]_incubationVars PROVE SeedInv'
  OBVIOUS
<1> USE DEF SeedInv
<1>1. ASSUME NEW s \in Seeders, BeginSeed(s) PROVE SeedInv'
  <2> DEFINE new == [at |-> 1, adds |-> {}, late |-> FALSE]
  <2>1. new \in Seedings /\ new.adds = {} BY TitlesAreTitles DEF Seedings
  <2> HIDE DEF new
  <2>2. seed' = [seed EXCEPT ![s] = new] /\ UNCHANGED <<opp, offers, doubled>>
    BY <1>1 DEF BeginSeed, new
  <2> QED BY <2>1, <2>2 DEF TitlesOnce, Active
<1>2. ASSUME NEW s \in Seeders, LookForTitle(s) PROVE SeedInv'
  <2> DEFINE t == Titles[seed[s].at]
             new == [seed[s] EXCEPT !.at = @ + 1,
                                    !.adds = IF Titled(t) = {} THEN @ \cup {t} ELSE @]
  <2>1. seed[s] \in Seedings /\ seed[s].at \in 1..Len(Titles)
    BY <1>2, TitlesAreTitles DEF LookForTitle, Seedings
  <2>2. t \in ToSet(Titles) BY <2>1, TitlesAreTitles
  <2>3. /\ new \in Seedings /\ new.late = seed[s].late
        /\ \A u \in new.adds : u \in seed[s].adds \/ Titled(u) = {}
    <3> DEFINE more == IF Titled(t) = {} THEN seed[s].adds \cup {t} ELSE seed[s].adds
    <3>1. /\ more \in SUBSET ToSet(Titles)
          /\ \A u \in more : u \in seed[s].adds \/ Titled(u) = {}
      BY <2>1, <2>2 DEF Seedings
    <3>2. new = [seed[s] EXCEPT !.at = @ + 1, !.adds = more] OBVIOUS
    <3> HIDE DEF more, t
    <3>3. seed[s].at + 1 \in 1..Len(Titles) + 1 BY <2>1, TitlesAreTitles
    <3>4. \A k \in Seedings : \A n \in 1..Len(Titles) + 1 :
            /\ [k EXCEPT !.at = n, !.adds = more] \in Seedings
            /\ [k EXCEPT !.at = n, !.adds = more].late = k.late
            /\ [k EXCEPT !.at = n, !.adds = more].adds = more
      BY <3>1 DEF Seedings
    <3>5. new = [seed[s] EXCEPT !.at = seed[s].at + 1, !.adds = more] BY <3>2
    <3> HIDE DEF new
    <3> QED BY <2>1, <3>1, <3>3, <3>4, <3>5, Zenon
  <2>4. /\ seed' = [seed EXCEPT ![s] = NoSeed] \/ seed' = [seed EXCEPT ![s] = new]
        /\ UNCHANGED <<opp, offers, doubled>>
    BY <1>2 DEF LookForTitle
  <2> HIDE DEF new, t
  <2>5. \A u \in new.adds : u \in seed[s].adds \/ \A r \in Active : opp[r] # u
    BY <2>3 DEF Titled
  <2>6. CASE seed' = [seed EXCEPT ![s] = NoSeed] BY <2>4, <2>6 DEF TitlesOnce, Active
  <2>7. CASE seed' = [seed EXCEPT ![s] = new]
    <3>1. seed[s] # NoSeed BY <1>2 DEF LookForTitle
    <3> QED BY <2>1, <2>3, <2>4, <2>5, <2>7, <3>1 DEF TitlesOnce, Active
  <2> QED BY <2>4, <2>6, <2>7
<1>3. ASSUME NEW s \in Seeders, CommitSeed(s) PROVE SeedInv'
  <2>1. seed[s] \in Seedings /\ seed[s].adds \subseteq ToSet(Titles) BY <1>3 DEF CommitSeed, Seedings
  <2>2. PICK rows \in [seed[s].adds -> OppRows \ Active] :
          /\ IsInjective(rows)
          /\ opp' = [r \in OppRows |-> IF \E t \in seed[s].adds : rows[t] = r
                       THEN CHOOSE t \in seed[s].adds : rows[t] = r ELSE opp[r]]
    BY <1>3 DEF CommitSeed
  <2>3. \A r \in OppRows :
          \/ \E t \in seed[s].adds : rows[t] = r /\ opp'[r] = t
          \/ opp'[r] = opp[r] /\ \A t \in seed[s].adds : rows[t] # r
    BY <2>2
  <2>4. opp' \in [OppRows -> ToSet(Titles) \cup {NoOpp}]
    <3>1. \A r \in OppRows : opp'[r] \in ToSet(Titles) \cup {NoOpp} BY <2>1, <2>3
    <3> QED BY <2>2, <3>1
  <2>5. seed' \in [Seeders -> Seedings \cup {NoSeed}]
        /\ \A u \in Seeders : seed'[u] # NoSeed => seed'[u].late
    <3>1. seed' = [u \in Seeders |-> IF u = s THEN NoSeed
                ELSE IF seed[u] # NoSeed THEN [seed[u] EXCEPT !.late = TRUE] ELSE seed[u]]
      BY <1>3 DEF CommitSeed
    <3>2. \A u \in Seedings : [u EXCEPT !.late = TRUE] \in Seedings /\ [u EXCEPT !.late = TRUE].late
      BY DEF Seedings
    <3>3. ASSUME NEW u \in Seeders
          PROVE  seed'[u] \in Seedings \cup {NoSeed} /\ (seed'[u] # NoSeed => seed'[u].late)
      <4>1. CASE u = s \/ seed[u] = NoSeed BY <3>1, <4>1
      <4>2. CASE u # s /\ seed[u] # NoSeed
        <5>1. seed'[u] = [seed[u] EXCEPT !.late = TRUE] /\ seed[u] \in Seedings BY <3>1, <4>2
        <5> QED BY <3>2, <5>1, Zenon
      <4> QED BY <4>1, <4>2
    <3> QED BY <3>1, <3>3
  <2>6. doubled' = (doubled \/ (seed[s].late /\ seed[s].adds # {})) BY <1>3 DEF CommitSeed
  <2>7. ASSUME ~doubled', NEW r \in Active', NEW q \in Active', opp'[r] = opp'[q] PROVE r = q
    <3>1. ~doubled /\ (~seed[s].late \/ seed[s].adds = {}) BY <2>6, <2>7
    <3>2. \A p \in Active : opp[p] \notin seed[s].adds
      <4>1. seed[s] # NoSeed BY <1>3 DEF CommitSeed
      <4> QED BY <3>1, <4>1, Zenon DEF TitlesOnce
    <3>3. r \in OppRows /\ q \in OppRows /\ opp'[r] # NoOpp /\ opp'[q] # NoOpp BY DEF Active
    <3>4. CASE \E t \in seed[s].adds : rows[t] = r /\ opp'[r] = t
      <4>1. opp'[q] \in seed[s].adds BY <2>7, <3>4
      <4>2. ~(opp'[q] = opp[q]) BY <3>2, <3>3, <4>1 DEF Active
      <4>3. PICK t \in seed[s].adds : rows[t] = q /\ opp'[q] = t BY <2>3, <3>3, <4>2
      <4> QED BY <2>7, <3>4, <4>3
    <3>5. CASE opp'[r] = opp[r] /\ \A t \in seed[s].adds : rows[t] # r
      <4>1. r \in Active BY <3>3, <3>5 DEF Active
      <4>2. opp'[q] \notin seed[s].adds BY <2>7, <3>2, <3>5, <4>1
      <4>3. opp'[q] = opp[q] BY <2>3, <3>3, <4>2
      <4>4. q \in Active BY <3>3, <4>3 DEF Active
      <4> QED BY <2>7, <3>1, <3>5, <4>1, <4>3, <4>4 DEF TitlesOnce
    <3> QED BY <2>3, <3>3, <3>4, <3>5
  <2>8. TitlesOnce' BY <2>5, <2>7 DEF TitlesOnce
  <2> QED BY <2>4, <2>5, <2>6, <2>8
<1>4. ASSUME NEW s \in Seeders, AbortSeed(s) PROVE SeedInv'
  BY <1>4 DEF AbortSeed, TitlesOnce, Active
<1>5. ASSUME NEW country, NEW least, NEW top, MatchOpportunities(country, least, top) PROVE SeedInv'
  BY <1>5 DEF MatchOpportunities, TitlesOnce, Active
<1>6. UNCHANGED incubationVars => SeedInv'
  BY DEF incubationVars, TitlesOnce, Active
<1> QED BY <1>1, <1>2, <1>3, <1>4, <1>5, <1>6 DEF IncubationNext

\* A list of the rows of a finite set names every one of them.
LEMMA ListsAreWhole ==
  ASSUME NEW S, IsFiniteSet(S), NEW q \in Lists(S)
  PROVE  /\ Cardinality(S) \in Nat /\ q \in [1..Cardinality(S) -> S] /\ IsInjective(q)
         /\ \A r \in S : \E i \in 1..Cardinality(S) : q[i] = r
<1> DEFINE n == Cardinality(S)
<1>1. n \in Nat BY FS_CardinalityType
<1>2. IsFiniteSet(1..n) /\ Cardinality(1..n) = n BY <1>1, FS_Interval
<1>3. q \in [1..n -> S] /\ IsInjective(q) BY DEF Lists
<1> HIDE DEF n
<1>4. q \in Injection(1..n, S) BY <1>3, Zenon DEF Injection
<1>5. Cardinality(1..n) = Cardinality(S) BY <1>2 DEF n
<1>6. q \in Surjection(1..n, S) BY <1>4, <1>5, FS_Injection
<1>7. \A r \in S : \E i \in 1..n : q[i] = r BY <1>6, Zenon DEF Surjection
<1> QED BY <1>1, <1>3, <1>7, Zenon DEF n

\* What match_opportunities answers, of the rows that are good enough.
Offered(rows, country, least, top) ==
  /\ rows \in Seq(Active)
  /\ Cardinality(Active) <= PageSize =>
       \A r \in Active : r \notin ToSet(rows) /\ Score(country, r) >= least =>
         /\ Len(rows) = top
         /\ \A q \in ToSet(rows) : Score(country, q) >= Score(country, r)

LEMMA TopIsBest ==
  ASSUME opp \in [OppRows -> ToSet(Titles) \cup {NoOpp}],
         NEW country, NEW least \in MinScores, NEW top \in TopKs,
         NEW page \in SUBSET Active,
         Cardinality(page) = IF Cardinality(Active) < PageSize THEN Cardinality(Active) ELSE PageSize,
         NEW rows \in TopMatches(page, country, least, top)
  PROVE  Offered(rows, country, least, top)
<1> DEFINE kept == {r \in page : Score(country, r) >= least}
           n == Cardinality(kept)
           m == IF n < top THEN n ELSE top
<1>1. PICK q \in SortedMatches(kept, country) : rows = SubSeq(q, 1, m)
  BY DEF TopMatches
<1>2. IsFiniteSet(Active) /\ IsFiniteSet(page) /\ IsFiniteSet(kept)
  <2>1. IsFiniteSet(Active) BY FS_Subset, IncubationAssumption DEF Active
  <2>2. IsFiniteSet(page) BY <2>1, FS_Subset
  <2> QED BY <2>1, <2>2, FS_Subset
<1>3. q \in Lists(kept) /\ \A i, j \in DOMAIN q : i < j => Score(country, q[i]) >= Score(country, q[j])
  BY <1>1, Zenon DEF SortedMatches
<1>4. kept \subseteq Active /\ \A r \in Active : r \in page /\ Score(country, r) >= least <=> r \in kept
  OBVIOUS
<1> HIDE DEF kept
<1>5. /\ n \in Nat /\ q \in [1..n -> kept] /\ \A r \in kept : \E i \in 1..n : q[i] = r
  BY <1>2, <1>3, ListsAreWhole, Zenon
<1> HIDE DEF n
<1>6. top \in Nat /\ top > 0
  <2>1. top \in Nat \ {0} BY IncubationAssumption, Zenon
  <2> QED BY <2>1
<1>7. m \in 0..n /\ (m < n => m = top) BY <1>5, <1>6
<1>8. q \in Seq(Active) /\ Len(q) = n /\ DOMAIN q = 1..n BY <1>4, <1>5
<1> HIDE DEF m
<1>9. /\ rows \in Seq(Active) /\ Len(rows) = m /\ \A i \in 1..m : rows[i] = q[i]
  <2>1. n \in Nat /\ m \in Nat /\ m <= n BY <1>5, <1>7
  <2> QED BY <1>1, <1>8, <2>1
<1>10. ToSet(rows) = {q[i] : i \in 1..m}
  <2>1. DOMAIN rows = 1..m BY <1>7, <1>9
  <2> QED BY <1>9, <2>1 DEF ToSet
<1>11. ASSUME Cardinality(Active) <= PageSize, NEW r \in Active, r \notin ToSet(rows),
              Score(country, r) >= least
       PROVE  Len(rows) = top /\ \A p \in ToSet(rows) : Score(country, p) >= Score(country, r)
  <2>1. page = Active
    <3>1. Cardinality(Active) \in Nat /\ PageSize \in Nat
      BY <1>2, FS_CardinalityType, IncubationAssumption
    <3>2. Cardinality(page) = Cardinality(Active) BY <1>11, <3>1
    <3> QED BY <1>2, <3>2, FS_Subset
  <2>2. PICK k \in 1..n : q[k] = r BY <1>4, <1>5, <1>11, <2>1, Zenon
  <2>3. k > m /\ m < n BY <1>5, <1>7, <1>10, <1>11, <2>2
  <2>4. ASSUME NEW p \in ToSet(rows) PROVE Score(country, p) >= Score(country, r)
    <3>1. PICK i \in 1..m : p = q[i] BY <1>10
    <3>2. i \in 1..n /\ i < k BY <1>5, <1>7, <2>3, <3>1
    <3> QED BY <1>3, <1>8, <2>2, <3>1, <3>2, Zenon
  <2> QED BY <1>7, <1>9, <2>3, <2>4, Zenon
<1> QED BY <1>9, <1>11, Zenon DEF Offered

\* The last answer is about the table as it is.
OffersFit ==
  offers # NoOffers =>
    /\ offers.top \in TopKs /\ offers.least \in MinScores /\ offers.country \in Countries
    /\ Offered(offers.rows, offers.country, offers.least, offers.top)

IncubationInv == SeedInv /\ OffersFit

LEMMA IncubationInvStep == IncubationInv /\ [IncubationNext]_incubationVars => IncubationInv'
<1> SUFFICES ASSUME IncubationInv, [IncubationNext]_incubationVars PROVE IncubationInv'
  OBVIOUS
<1>1. SeedInv' BY SeedInvStep DEF IncubationInv
<1>2. CASE UNCHANGED <<opp, offers>>
  <2>1. Active' = Active BY <1>2 DEF Active
  <2>2. \A country, r : Score(country, r)' = Score(country, r) BY <1>2 DEF Score, Eligible
  <2>3. \A rows, country, least, top :
          Offered(rows, country, least, top)' <=> Offered(rows, country, least, top)
    BY <2>1, <2>2, Zenon DEF Offered
  <2>4. OffersFit BY DEF IncubationInv
  <2>5. OffersFit' BY <1>2, <2>3, <2>4, Zenon DEF OffersFit
  <2> QED BY <1>1, <2>5 DEF IncubationInv
<1>3. ASSUME NEW s \in Seeders, CommitSeed(s) PROVE IncubationInv'
  BY <1>1, <1>3 DEF IncubationInv, CommitSeed, OffersFit
<1>4. ASSUME NEW country \in Countries, NEW least \in MinScores, NEW top \in TopKs,
             MatchOpportunities(country, least, top)
      PROVE  IncubationInv'
  <2> DEFINE n == IF Cardinality(Active) < PageSize THEN Cardinality(Active) ELSE PageSize
  <2>0. PICK page \in SUBSET Active :
          /\ Cardinality(page) = n
          /\ \E rows \in TopMatches(page, country, least, top) :
               offers' = [rows |-> rows, country |-> country, least |-> least, top |-> top]
    BY <1>4 DEF MatchOpportunities
  <2>1. PICK rows \in TopMatches(page, country, least, top) :
          offers' = [rows |-> rows, country |-> country, least |-> least, top |-> top]
    BY <2>0
  <2>2. UNCHANGED opp BY <1>4 DEF MatchOpportunities
  <2>3. Offered(rows, country, least, top)
    BY <2>0, <2>1, TopIsBest, Zenon DEF IncubationInv, SeedInv
  <2>4. Active' = Active BY <2>2 DEF Active
  <2>5. \A c, r : Score(c, r)' = Score(c, r) BY <2>2 DEF Score, Eligible
  <2>6. /\ offers'.rows = rows /\ offers'.country = country /\ offers'.least = least
        /\ offers'.top = top
    BY <2>1
  <2>7. Offered(offers.rows, offers.country, offers.least, offers.top)'
    BY <2>3, <2>4, <2>5, <2>6, Zenon DEF Offered
  <2>8. OffersFit' BY <2>6, <2>7, Zenon DEF OffersFit
  <2> QED BY <1>1, <2>8 DEF IncubationInv
<1> QED BY <1>2, <1>3, <1>4 DEF IncubationNext, BeginSeed, LookForTitle, AbortSeed, incubationVars

LEMMA IncubationInvAlways == IncubationSpec => []IncubationInv
<1>1. IncubationInit => IncubationInv
  BY DEF IncubationInit, IncubationInv, SeedInv, TitlesOnce, OffersFit, Active
<1> QED BY <1>1, IncubationInvStep, PTL DEF IncubationSpec

(***************************************************************************)
(* Rows, seedings and answers keep their types (opportunity_seeder.py,     *)
(* matching.py).                                                           *)
(***************************************************************************)
THEOREM IncubationTypes == IncubationSpec => []IncubationTypeOK
<1>1. IncubationInv => IncubationTypeOK
  <2> SUFFICES ASSUME IncubationInv PROVE IncubationTypeOK
    OBVIOUS
  <2>1. \A s \in Seeders : seed[s] = NoSeed \/
          /\ seed[s].at \in 1..Len(Titles) + 1 /\ seed[s].adds \subseteq ToSet(Titles)
          /\ seed[s].late \in BOOLEAN
    BY DEF IncubationInv, SeedInv, Seedings
  <2>2. ASSUME offers # NoOffers PROVE ToSet(offers.rows) \subseteq OppRows
    <3>1. offers.rows \in Seq(Active) BY <2>2 DEF IncubationInv, OffersFit, Offered
    <3>2. ToSet(offers.rows) \subseteq Active BY <3>1 DEF ToSet
    <3> QED BY <3>2 DEF Active
  <2> QED BY <2>1, <2>2 DEF IncubationInv, SeedInv, OffersFit, IncubationTypeOK
<1> QED BY <1>1, IncubationInvAlways, PTL

(***************************************************************************)
(* No programme is offered twice unless seedings overlapped, and nothing   *)
(* better is left out of what fits on a page (matching.py,                 *)
(* match_opportunities).                                                   *)
(***************************************************************************)
THEOREM OffersAreTheBest == IncubationSpec => []OffersAreBest
<1>1. IncubationInv => OffersAreBest
  <2> SUFFICES ASSUME IncubationInv, offers # NoOffers PROVE OffersAreBest
    BY DEF OffersAreBest
  <2> DEFINE shown == ToSet(offers.rows)
  <2>1. Offered(offers.rows, offers.country, offers.least, offers.top)
    BY DEF IncubationInv, OffersFit
  <2>2. ASSUME ~doubled, NEW t \in ToSet(Titles) PROVE Cardinality(Titled(t) \cap shown) <= 1
    <3> DEFINE same == Titled(t) \cap shown
    <3>1. \A r, q \in same : r = q BY <2>2 DEF IncubationInv, SeedInv, TitlesOnce, Titled
    <3>2. CASE same = {} BY <3>2, FS_EmptySet
    <3>3. CASE same # {}
      <4>1. PICK r : same = {r} BY <3>1, <3>3
      <4> HIDE DEF same
      <4>2. Cardinality(same) = 1 BY <4>1, FS_Singleton
      <4> QED BY <4>2 DEF same
    <3> QED BY <3>2, <3>3
  <2> QED BY <2>1, <2>2, Zenon DEF OffersAreBest, Offered
<1> QED BY <1>1, IncubationInvAlways, PTL
=============================================================================
