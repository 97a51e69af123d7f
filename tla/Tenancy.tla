------------------------------ MODULE Tenancy ------------------------------
(***************************************************************************)
(* Organizations with their members, and projects with their startup       *)
(* profiles (platform routes/organizations.py and routes/projects.py).     *)
(*                                                                         *)
(* A slug is the sequence of the words of the name.  create_project counts *)
(* the slugs that begin with its own, then inserts; every other handler is *)
(* one step here, since it reads its row and writes that row.              *)
(*                                                                         *)
(* Simplifications.  Names, settings and the columns of a profile are left *)
(* out, so update_organization and update_startup_profile change nothing   *)
(* here; so is a project's owner, who alone may change it.  Nobody is a    *)
(* superadmin. list and get only read.                                     *)
(***************************************************************************)
EXTENDS Naturals, FiniteSets, SequencesExt

CONSTANTS
  Members,     \* users
  Orgs,        \* organizations, by their slugs
  Names,       \* the slugs of projects
  Projects,    \* bound: rows of projects
  Creates      \* slots for create_project calls in flight

ASSUME TenancyAssumption == \A slug \in Names : slug \in Seq(ToSet(slug))

VARIABLES
  role,        \* the members of each organization; it exists if it has any
  project,     \* the rows of projects
  create,      \* create_project calls that have counted
  twin         \* history: projects inserted by calls that had counted too early

tenancyVars == <<role, project, create, twin>>

NoProject == [status |-> "absent"]
NoCreate == [at |-> "idle"]
Outside == "no organization"

TenancyTypeOK ==
  /\ role \in [Orgs -> [Members -> {"none", "member", "admin", "owner"}]]
  /\ project \in [Projects -> {NoProject} \cup
       [status : {"draft", "live", "deleted"}, org : Orgs \cup {Outside}, slug : Names,
        profile : BOOLEAN]]
  /\ create \in [Creates -> {NoCreate} \cup
       [at : {"counted"}, org : Orgs \cup {Outside}, slug : Names, late : BOOLEAN]]
  /\ twin \subseteq Projects

TenancyInit ==
  /\ role = [o \in Orgs |-> [u \in Members |-> "none"]]
  /\ project = [p \in Projects |-> NoProject]
  /\ create = [c \in Creates |-> NoCreate] /\ twin = {}

-----------------------------------------------------------------------------
(* Organizations.                                                          *)

Exists(o) == \E u \in Members : role[o][u] # "none"

\* The slug is looked for, and unique.
CreateOrganization(o, u) ==
  /\ ~Exists(o)
  /\ role' = [role EXCEPT ![o][u] = "owner"]
  /\ UNCHANGED <<project, create, twin>>

Administers(o, u) == role[o][u] \in {"owner", "admin"}

\* Any role may be given.
AddMember(o, u, v, r) ==
  /\ Administers(o, u) /\ role[o][v] = "none"
  /\ role' = [role EXCEPT ![o][v] = r]
  /\ UNCHANGED <<project, create, twin>>

\* An owner is never removed.
RemoveMember(o, u, v) ==
  /\ Administers(o, u) /\ role[o][v] \in {"member", "admin"}
  /\ role' = [role EXCEPT ![o][v] = "none"]
  /\ UNCHANGED <<project, create, twin>>

\* Its projects stay, outside of any organization.
DeleteOrganization(o, u) ==
  /\ role[o][u] = "owner"
  /\ role' = [role EXCEPT ![o] = [v \in Members |-> "none"]]
  /\ project' = [p \in Projects |->
       IF project[p] # NoProject /\ project[p].org = o
       THEN [project[p] EXCEPT !.org = Outside] ELSE project[p]]
  /\ UNCHANGED <<create, twin>>

-----------------------------------------------------------------------------
(* Projects.                                                               *)

Kept == {p \in Projects : project[p] # NoProject}

\* slug LIKE 'base%': in every organization, deleted or not.
Alike(slug) == {p \in Kept : IsPrefix(slug, project[p].slug)}

Homes == {Outside} \cup {o \in Orgs : Exists(o)}

\* Mutant: nobody counts.
CountSlugsNever(c, o, slug) ==
  /\ create[c] = NoCreate /\ o \in Homes
  /\ create' = [create EXCEPT ![c] =
       [at |-> "counted", org |-> o, slug |-> slug, late |-> FALSE]]
  /\ UNCHANGED <<role, project, twin>>

\* create_project up to its INSERT.  A count above zero is read a second time
\* from a closed result, which raises: such a call is a 500 and changes nothing.
\* Whoever calls need not be a member of o.
CountSlugs(c, o, slug) ==
  /\ create[c] = NoCreate /\ Alike(slug) = {} /\ o \in Homes
  /\ create' = [create EXCEPT ![c] =
       [at |-> "counted", org |-> o, slug |-> slug, late |-> FALSE]]
  /\ UNCHANGED <<role, project, twin>>

\* The INSERT fails on a missing organization, and on a slug that is taken in it.
InsertProject(c) ==
  /\ create[c] # NoCreate
  /\ LET new == create[c]
         fails == \/ new.org \notin Homes
                  \/ \E p \in Kept : /\ new.org # Outside /\ project[p].org = new.org
                                     /\ project[p].slug = new.slug
     IN
       \/ fails /\ create' = [create EXCEPT ![c] = NoCreate] /\ UNCHANGED <<project, twin>>
       \/ /\ ~fails
          /\ \E p \in Projects \ Kept :
               /\ project' = [project EXCEPT ![p] =
                    [status |-> "draft", org |-> new.org, slug |-> new.slug,
                     profile |-> FALSE]]
               /\ twin' = IF new.late THEN twin \cup {p} ELSE twin
          /\ create' = [d \in Creates |->
               IF d = c THEN NoCreate
               ELSE IF create[d] # NoCreate /\ IsPrefix(create[d].slug, new.slug)
               THEN [create[d] EXCEPT !.late = TRUE] ELSE create[d]]
  /\ UNCHANGED role

\* update_project: any status, deleted projects too.
UpdateProject(p, status) ==
  /\ p \in Kept
  /\ project' = [project EXCEPT ![p].status = status]
  /\ UNCHANGED <<role, create, twin>>

\* delete_project keeps the row.
DeleteProject(p) == UpdateProject(p, "deleted")

\* create_startup_profile: one per project (project_id is unique).
CreateProfile(p) ==
  /\ p \in Kept /\ ~project[p].profile
  /\ project' = [project EXCEPT ![p].profile = TRUE]
  /\ UNCHANGED <<role, create, twin>>

TenancyNext ==
  \/ \E o \in Orgs, u \in Members :
       \/ CreateOrganization(o, u) \/ DeleteOrganization(o, u)
       \/ \E v \in Members : RemoveMember(o, u, v)
       \/ \E v \in Members, r \in {"member", "admin", "owner"} : AddMember(o, u, v, r)
  \/ \E c \in Creates :
       \/ InsertProject(c)
       \/ \E o \in Orgs \cup {Outside}, slug \in Names : CountSlugs(c, o, slug)
  \/ \E p \in Projects :
       \/ DeleteProject(p) \/ CreateProfile(p) \/ UpdateProject(p, "live")

TenancySpec == TenancyInit /\ [][TenancyNext]_tenancyVars

-----------------------------------------------------------------------------
(* Properties.                                                             *)

(***************************************************************************)
(* Two projects share a slug only if the calls that created them           *)
(* overlapped, and never within one organization.                          *)
(***************************************************************************)
SlugSharedOnlyInOverlap ==
  \A p \in Kept, q \in Kept : p # q /\ project[p].slug = project[q].slug =>
    /\ p \in twin \/ q \in twin
    /\ project[p].org # project[q].org \/ project[p].org = Outside
=============================================================================
