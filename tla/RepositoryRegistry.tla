------------------------- MODULE RepositoryRegistry -------------------------
(***************************************************************************)
(* The repository registry: its documents (repository-registry/            *)
(* repository.ts), the operators who create, edit, deactivate, reactivate  *)
(* and delete them (api/repository-registry.ts, api/registry-delete.ts),   *)
(* and the database setup (db/indexes.ts) that may drop and rebuild the    *)
(* unique index while they do.                                             *)
(*                                                                         *)
(* Updates and deletions read a document first and write later; creations  *)
(* and changes of status are one write.  The entries are those of one      *)
(* project: nothing relates the entries of two.  Who is let in (the token, *)
(* the shape of a body) is decided before the registry is asked and        *)
(* changes nothing, and so does a database role without the right to       *)
(* remove.  The audit entry follows the write it reports: one that throws  *)
(* turns the answer into an error and undoes nothing.                      *)
(***************************************************************************)
EXTENDS FiniteSets

CONSTANTS
  Entry,      \* documents (_id)
  RepoId,     \* repositoryIds
  Url,        \* repository urls
  GithubUrl,  \* those of the accepted form
  Branch,     \* branch names
  Pattern,    \* branch patterns, prefix/*
  Under,      \* Under[p]: the branches that begin with the prefix of p
  Allowed,    \* lists of allowed branches and patterns
  Policy,     \* access policies: an installation id or nothing usable
  Handler,    \* requests being handled
  NoEntry     \* no document, no request

Content == [url : Url, default : Branch, allowed : Allowed, policy : Policy]
Entries ==
  [url : Url, default : Branch, allowed : Allowed, policy : Policy,
   repo : RepoId, status : {"active", "inactive"}]

\* An update holds the document it read and the content merged with it.  To
\* name a field with the value it has is the same as not to name it.
Intent ==
  [kind : {"update"}, entry : Entry, seen : Entries, merged : Content]
    \cup [kind : {"delete"}, entry : Entry]

ASSUME UrlAssumption == GithubUrl \subseteq Url
ASSUME AllowedAssumption == Allowed \subseteq SUBSET (Branch \cup Pattern)
ASSUME UnderAssumption == Under \in [Pattern -> SUBSET Branch]
ASSUME NoEntryAssumption == NoEntry \notin Entries \cup Intent

VARIABLES
  entries,  \* the repositoryRegistry collection
  asked,    \* history: the status last asked for an entry
  deleted,  \* history: the entries that were removed
  intent,   \* what each operator's handler is about to write
  index,    \* the partial unique index on (project, repositoryId)
  setup     \* whether a setup stands between its drop and its rebuild

registryVars == << entries, asked, deleted, intent, index, setup >>

RegistryTypeOK ==
  /\ entries \in [Entry -> Entries \cup {NoEntry}]
  /\ asked \in [Entry -> {"active", "inactive"}]
  /\ deleted \in SUBSET Entry
  /\ intent \in [Handler -> Intent \cup {NoEntry}]
  /\ index \in {"current", "outdated", "missing"}
  /\ setup \in {"idle", "rebuild"}

RegistryInit ==
  /\ entries = [e \in Entry |-> NoEntry]
  /\ asked = [e \in Entry |-> "inactive"]
  /\ deleted = {}
  /\ intent = [o \in Handler |-> NoEntry]
  /\ index = "current"
  /\ setup = "idle"

-----------------------------------------------------------------------------
(***************************************************************************)
(* The shape of an entry                                                   *)
(***************************************************************************)
\* Exactly a listed name, or under a listed prefix.
matchesAllowedBranch(branch, allowed) ==
  branch \in allowed \/ \E p \in allowed \cap Pattern : branch \in Under[p]

WellShaped(c) ==
  /\ c.url \in GithubUrl
  /\ c.allowed # {}
  /\ matchesAllowedBranch(c.default, c.allowed)

With(doc, c) ==
  [doc EXCEPT !.url = c.url, !.default = c.default, !.allowed = c.allowed,
              !.policy = c.policy]

(***************************************************************************)
(* The unique index                                                        *)
(***************************************************************************)
Live(e) == entries[e] # NoEntry /\ entries[e].status = "active"

\* Another entry is the active mapping of the same repository.
Rival(e, r) == \E f \in Entry \ {e} : Live(f) /\ entries[f].repo = r

Unique ==
  \A e, f \in Entry :
    Live(e) /\ Live(f) /\ entries[e].repo = entries[f].repo => e = f

\* Mutated form of Refused: the index also covers inactive mappings, by their
\* status: an active mapping only collides with an inactive one.
RefusedByInactive(e, r) ==
  index # "missing"
    /\ \E f \in Entry \ {e} :
         entries[f] # NoEntry /\ entries[f].status = "inactive" /\ entries[f].repo = r

\* The database refuses a second active mapping as long as the index exists.
Refused(e, r) == index # "missing" /\ Rival(e, r)

-----------------------------------------------------------------------------
(***************************************************************************)
(* Operators                                                               *)
(***************************************************************************)
Fresh(e) == entries[e] = NoEntry /\ e \notin deleted

\* A duplicate is answered with a conflict, a bad shape with an error; both
\* leave the registry as it is.
CreateEntry ==
  \E e \in Entry, r \in RepoId, c \in Content :
    /\ Fresh(e)
    /\ WellShaped(c)
    /\ ~Refused(e, r)
    /\ entries' = [entries EXCEPT ![e] =
         [url |-> c.url, default |-> c.default, allowed |-> c.allowed,
          policy |-> c.policy, repo |-> r, status |-> "active"]]
    /\ asked' = [asked EXCEPT ![e] = "active"]
    /\ UNCHANGED << deleted, intent, index, setup >>

SetStatus ==
  \E e \in Entry, s \in {"active", "inactive"} :
    /\ entries[e] # NoEntry
    /\ s = "active" => ~Refused(e, entries[e].repo)
    /\ entries' = [entries EXCEPT ![e].status = s]
    /\ asked' = [asked EXCEPT ![e] = s]
    /\ UNCHANGED << deleted, intent, index, setup >>

\* The read of an update: what is merged with it must be well shaped.
Edit(o) ==
  /\ intent[o] = NoEntry
  /\ \E e \in Entry, c \in Content :
       /\ entries[e] # NoEntry
       /\ WellShaped(c)
       /\ intent' = [intent EXCEPT ![o] =
            [kind |-> "update", entry |-> e, seen |-> entries[e], merged |-> c]]
  /\ UNCHANGED << entries, asked, deleted, index, setup >>

Answered(o) == intent' = [intent EXCEPT ![o] = NoEntry]

Updating(o) == intent[o] # NoEntry /\ intent[o].kind = "update"

\* Mutated form of Updated: only the fields the request changes are set.
UpdatedPatch(doc, r) ==
  [doc EXCEPT !.url = IF r.merged.url = r.seen.url THEN @ ELSE r.merged.url,
              !.default = IF r.merged.default = r.seen.default THEN @
                          ELSE r.merged.default,
              !.allowed = IF r.merged.allowed = r.seen.allowed THEN @
                          ELSE r.merged.allowed]

\* Mutated form of Updated: the document is replaced, its status included.
UpdatedWhole(doc, r) == With(r.seen, r.merged)

\* What an update makes of the document it finds: every mutable field is set
\* to what was merged, whether the request named it or not.
Updated(doc, r) == With(doc, r.merged)

\* The write of an update; an entry removed in between is not found.
Store(o) ==
  /\ Updating(o)
  /\ LET e == intent[o].entry
     IN  entries' = IF entries[e] = NoEntry THEN entries
                    ELSE [entries EXCEPT ![e] = Updated(@, intent[o])]
  /\ Answered(o)
  /\ UNCHANGED << asked, deleted, index, setup >>

\* The read of a deletion: the operator names the repository, and only an
\* inactive mapping goes on.
AskDelete(o) ==
  /\ intent[o] = NoEntry
  /\ \E e \in Entry :
       /\ entries[e] # NoEntry
       /\ entries[e].status = "inactive"
       /\ intent' = [intent EXCEPT ![o] = [kind |-> "delete", entry |-> e]]
  /\ UNCHANGED << entries, asked, deleted, index, setup >>

Deleting(o) == intent[o] # NoEntry /\ intent[o].kind = "delete"

Remove(e) ==
  /\ entries' = [entries EXCEPT ![e] = NoEntry]
  /\ deleted' = deleted \cup {e}

\* Mutated form of Delete: the status found before is not asked for again.
DeleteBlind(o) ==
  /\ Deleting(o)
  /\ LET e == intent[o].entry
     IN  IF entries[e] # NoEntry THEN Remove(e) ELSE UNCHANGED << entries, deleted >>
  /\ Answered(o)
  /\ UNCHANGED << asked, index, setup >>

\* The removal, of the entry if it is inactive still.
Delete(o) ==
  /\ Deleting(o)
  /\ LET e == intent[o].entry
     IN  IF entries[e] # NoEntry /\ entries[e].status = "inactive"
         THEN Remove(e) ELSE UNCHANGED << entries, deleted >>
  /\ Answered(o)
  /\ UNCHANGED << asked, index, setup >>

\* The handler dies, or its write throws before it takes effect.
Drop(o) ==
  /\ intent[o] # NoEntry
  /\ Answered(o)
  /\ UNCHANGED << entries, asked, deleted, index, setup >>

-----------------------------------------------------------------------------
(***************************************************************************)
(* Database setup                                                          *)
(***************************************************************************)
\* A release defines the index differently.
Redefine ==
  /\ setup = "idle"
  /\ index = "current"
  /\ index' = "outdated"
  /\ UNCHANGED << entries, asked, deleted, intent, setup >>

\* createIndex conflicts with the old definition, which is dropped.
DropIndex ==
  /\ setup = "idle"
  /\ index = "outdated"
  /\ index' = "missing"
  /\ setup' = "rebuild"
  /\ UNCHANGED << entries, asked, deleted, intent >>

\* Mutated form of Built: the index is reported although it was not built.
BuiltAnyway == "current"

\* An index is built if no two entries collide, and else the setup fails.
Built == IF Unique THEN "current" ELSE "missing"

\* The rebuild after a drop, or the setup run again after a failed one.
BuildIndex ==
  /\ index = "missing"
  /\ index' = Built
  /\ setup' = "idle"
  /\ UNCHANGED << entries, asked, deleted, intent >>

\* The setup dies between its drop and its rebuild.
AbortSetup ==
  /\ setup = "rebuild"
  /\ setup' = "idle"
  /\ UNCHANGED << entries, asked, deleted, intent, index >>

-----------------------------------------------------------------------------
Handle(o) == Edit(o) \/ Store(o) \/ AskDelete(o) \/ Delete(o) \/ Drop(o)

RegistryNext ==
  \/ CreateEntry \/ SetStatus
  \/ \E o \in Handler : Handle(o)
  \/ Redefine \/ DropIndex \/ BuildIndex \/ AbortSetup

RegistrySpec == RegistryInit /\ [][RegistryNext]_registryVars

-----------------------------------------------------------------------------
(***************************************************************************)
(* Properties                                                              *)
(***************************************************************************)
(* A repository has one active mapping in a project, whoever creates and   *)
(* reactivates entries at the same time, unless a setup has dropped the    *)
(* index and nobody has rebuilt it; once built again it has one again.     *)
OneActiveMapping == index # "missing" => Unique

(* Every stored entry was validated as a whole: its default branch is one  *)
(* of its allowed branches and its url has the accepted form, although two *)
(* operators may change the two fields at the same time.                   *)
EntriesAreWellShaped ==
  \A e \in Entry : entries[e] # NoEntry => WellShaped(entries[e])

(* The status of an entry is the one last asked for it: an edit that read  *)
(* the entry before a deactivation does not undo it by writing later.      *)
StatusIsAsAsked ==
  \A e \in Entry : entries[e] # NoEntry => entries[e].status = asked[e]

(* A removed entry never comes back: an edit in flight finds nothing.      *)
DeletedStaysDeleted == \A e \in deleted : entries[e] = NoEntry

(* A mapping that is active is never removed, also when it was inactive    *)
(* when its deletion was asked for: a concurrent reactivation wins.        *)
LiveIsNeverDeleted ==
  [][\A e \in Entry : Live(e) => entries'[e] # NoEntry]_registryVars
=============================================================================
