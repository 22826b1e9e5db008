--------------------------- MODULE FavoriteFolders ---------------------------
(***************************************************************************)
(* The personal folders of favourite reports: the list at the server, the  *)
(* copy of it in the query cache of the browser, which mutations change at *)
(* once and fetches replace later, and the folder that is selected.        *)
(***************************************************************************)
EXTENDS Naturals, FiniteSets, SequencesExt

CONSTANTS
  MaxId,          \* bounds the folders ever made; they are numbered
  Names,          \* names of folders
  Reports,        \* reports of the user
  None,           \* not a favourite; nothing under way; no prompt
  Asked,          \* a fetch the server has not answered yet
  All, Unfiled,   \* all favourites; the favourites of no folder
  MaxFolders,     \* _MAX_FAVORITE_FOLDERS
  Elder           \* bounds the folders renamed, or deleted from another browser

Folders == 1..MaxId

VARIABLES
  stored,     \* at the server: the folders in order, and each report's place
  nextId,     \* the number of the next folder
  cached,     \* the same in the query cache
  fetch,      \* of each query: the fetch under way, or its answer
  work,       \* the mutation of the folder manager under way
  prompt,     \* the report whose folder is asked for after the star
  selected,   \* the folder of the URL
  unaware     \* of each query: there is a change nobody has asked it to show

favoriteVars == <<stored, nextId, cached, fetch, work, prompt, selected, unaware>>

\* The two queries: the folders in their order, and the favourites.
Queries == {"list", "place"}

Folder == [id : Folders, name : Names]
Places == {None, Unfiled} \cup Folders

IdsIn(list) == {list[i].id : i \in DOMAIN list}
\* Folders have ids of their own.
Position(list, f) == CHOOSE i \in DOMAIN list : list[i].id = f
Without(list, f) == IF f \in IdsIn(list) THEN RemoveAt(list, Position(list, f)) ELSE list
Renamed(list, f, n) == [i \in DOMAIN list |-> IF list[i].id = f THEN [list[i] EXCEPT !.name = n] ELSE list[i]]

FavoriteTypeOK ==
  /\ stored.list \in Seq(Folder) /\ stored.place \in [Reports -> Places]
  /\ cached.list \in Seq(Folder) /\ cached.place \in [Reports -> Places]
  /\ Cardinality(IdsIn(stored.list)) = Len(stored.list)
  /\ Range(stored.place) \subseteq {None, Unfiled} \cup IdsIn(stored.list)
  /\ nextId \in 1..(MaxId + 1)
  /\ prompt \in Reports \cup {None}
  /\ selected \in {All, Unfiled} \cup Folders
  /\ unaware \in [Queries -> BOOLEAN]

FavoriteInit ==
  /\ stored = [list |-> <<>>, place |-> [r \in Reports |-> None]]
  /\ nextId = 1
  /\ cached = stored
  /\ fetch = [q \in Queries |-> None]
  /\ work = None /\ prompt = None
  /\ selected = All
  /\ unaware = [q \in Queries |-> FALSE]

-----------------------------------------------------------------------------
(* Fetches.  Invalidating a query fetches it anew, and drops the answer of  *)
(* the fetch under way.                                                    *)

Invalidate(queries) == fetch' = [q \in Queries |-> IF q \in queries THEN Asked ELSE fetch[q]]

\* Mutant: a mutation that succeeded leaves the cache as it is.
TrustCache(queries) == UNCHANGED fetch

\* A mutation is over: the queries it concerns are fetched again.
Settle(queries) == Invalidate(queries)

\* The page comes into view again, or 30 s have passed.
Refetch(q) ==
  /\ fetch[q] = None
  /\ Invalidate({q})
  /\ UNCHANGED <<stored, nextId, cached, work, prompt, selected, unaware>>

FetchRead(q) ==
  /\ fetch[q] = Asked
  /\ fetch' = [fetch EXCEPT ![q] = stored[q]]
  /\ unaware' = [unaware EXCEPT ![q] = FALSE]
  /\ UNCHANGED <<stored, nextId, cached, work, prompt, selected>>

\* A selected folder that is not in the list any more is taken out of the URL.
Valid(sel, list) == IF sel \in Folders \ IdsIn(list) THEN All ELSE sel

FetchArrives(q) ==
  /\ fetch[q] \notin {None, Asked}
  /\ cached' = [cached EXCEPT ![q] = fetch[q]]
  /\ fetch' = [fetch EXCEPT ![q] = None]
  /\ selected' = Valid(selected, cached'.list)
  /\ UNCHANGED <<stored, nextId, work, prompt, unaware>>

\* The fetch has failed with its retries: the query keeps what it has.
FetchFails(q) ==
  /\ fetch[q] # None
  /\ fetch' = [fetch EXCEPT ![q] = None]
  /\ unaware' = [unaware EXCEPT ![q] = TRUE]
  /\ UNCHANGED <<stored, nextId, cached, work, prompt, selected>>

-----------------------------------------------------------------------------
(* The folder manager: one mutation at a time.                             *)

Idle == work = None

\* The name is that of another folder.
Taken(n, f) == \E i \in DOMAIN stored.list : stored.list[i].name = n /\ stored.list[i].id # f

Create(n)    == [stored EXCEPT !.list = Append(@, [id |-> nextId, name |-> n])]
Rename(f, n) == [stored EXCEPT !.list = Renamed(@, f, n)]

\* Mutant: the favourites of the folder keep it.
DeleteOnly(f) == [stored EXCEPT !.list = Without(@, f)]

\* Its favourites become unfiled ones.
Delete(f) ==
  [list |-> Without(stored.list, f),
   place |-> [r \in Reports |-> IF stored.place[r] = f THEN Unfiled ELSE stored.place[r]]]

Reorder(ids) ==
  [stored EXCEPT !.list = [i \in DOMAIN ids |-> @[Position(@, ids[i])]]]

AskCreate(n) ==
  /\ Idle /\ nextId <= MaxId
  /\ work' = [kind |-> "create", name |-> n]
  /\ UNCHANGED <<stored, nextId, cached, fetch, prompt, selected, unaware>>

AskRename(f, n) ==
  /\ Idle /\ f \in IdsIn(cached.list) \cap Elder
  /\ work' = [kind |-> "rename", id |-> f, name |-> n]
  /\ UNCHANGED <<stored, nextId, cached, fetch, prompt, selected, unaware>>

AskDelete(f) ==
  /\ Idle /\ f \in IdsIn(cached.list)
  /\ work' = [kind |-> "delete", id |-> f]
  /\ UNCHANGED <<stored, nextId, cached, fetch, prompt, selected, unaware>>

Swapped(list, i) == [list EXCEPT ![i] = list[i + 1], ![i + 1] = list[i]]

\* The new order is shown at once.
AskReorder(i) ==
  /\ Idle /\ i \in 1..(Len(cached.list) - 1)
  /\ LET list == Swapped(cached.list, i) IN
     /\ cached' = [cached EXCEPT !.list = list]
     /\ work' = [kind |-> "reorder", ids |-> [j \in DOMAIN list |-> list[j].id]]
  /\ UNCHANGED <<stored, nextId, fetch, prompt, selected, unaware>>

\* The server takes a new folder unless its name is taken or there are too
\* many (MaxId bounds the model); a rename likewise; an order that does not name
\* all folders is refused.
Refused(w) ==
  CASE w.kind = "create"  -> Taken(w.name, nextId) \/ Len(stored.list) >= MaxFolders \/ nextId > MaxId
    [] w.kind = "rename"  -> w.id \notin IdsIn(stored.list) \/ Taken(w.name, w.id)
    [] w.kind = "delete"  -> w.id \notin IdsIn(stored.list)
    [] w.kind = "reorder" -> ~IsInjective(w.ids) \/ Range(w.ids) # IdsIn(stored.list)

\* The cache after the answer, before the lists are fetched again.
Shown(w) ==
  CASE w.kind = "create"  -> [cached EXCEPT !.list = Append(Without(@, nextId), [id |-> nextId, name |-> w.name])]
    [] w.kind = "rename"  -> [cached EXCEPT !.list = Renamed(@, w.id, w.name)]
    [] w.kind = "delete"  -> [cached EXCEPT !.list = Without(@, w.id)]
    [] w.kind = "reorder" -> cached

Carry(w) ==
  /\ stored' = CASE w.kind = "create"  -> Create(w.name)
                 [] w.kind = "rename"  -> Rename(w.id, w.name)
                 [] w.kind = "delete"  -> Delete(w.id)
                 [] w.kind = "reorder" -> Reorder(w.ids)
  /\ nextId' = IF w.kind = "create" THEN nextId + 1 ELSE nextId

\* What a mutation of the manager changes, and so fetches again.
Concerned(w) == IF w.kind = "reorder" THEN {"list"} ELSE Queries

Succeed(w) ==
  /\ cached' = Shown(w)
  /\ selected' = CASE w.kind = "create"                     -> nextId
                   [] w.kind = "delete" /\ selected = w.id -> Unfiled
                   [] OTHER                                  -> selected
  /\ Settle(Concerned(w))
  /\ UNCHANGED unaware

\* An error is only reported, except that an order is fetched again.
Fail(w, carried) ==
  /\ IF w.kind = "reorder" THEN Settle({"list"}) /\ UNCHANGED unaware
     ELSE /\ unaware' = [q \in Queries |-> unaware[q] \/ carried]
          /\ UNCHANGED fetch
  /\ UNCHANGED <<cached, selected>>

\* The mutation is carried out and its answer arrives or is lost, or it fails.
Answered ==
  /\ work # None /\ work' = None
  /\ \/ ~Refused(work) /\ Carry(work) /\ (Succeed(work) \/ Fail(work, TRUE))
     \/ UNCHANGED <<stored, nextId>> /\ Fail(work, FALSE)
  /\ UNCHANGED prompt

-----------------------------------------------------------------------------
(* The star, the prompt after it, and moves.                               *)

ToggleStar(r) ==
  /\ LET place == IF cached.place[r] # None THEN None
                  ELSE IF stored.place[r] = None THEN Unfiled ELSE stored.place[r] IN
     stored' = [stored EXCEPT !.place[r] = place]
  /\ prompt' = IF cached.place[r] = None THEN r ELSE IF prompt = r THEN None ELSE prompt
  /\ Settle({"place"})
  /\ UNCHANGED <<nextId, cached, work, selected, unaware>>

\* To a folder or to the unfiled ones, from a card or from the prompt, which
\* then closes; the server refuses a report that is no favourite and a folder
\* that is not there.
Move(r, to) ==
  /\ prompt = r \/ cached.place[r] \notin {None, to}
  /\ to \in {Unfiled} \cup IdsIn(cached.list)
  /\ IF stored.place[r] = None \/ to \in Folders \ IdsIn(stored.list) THEN UNCHANGED <<stored, fetch, prompt>>
     ELSE /\ stored' = [stored EXCEPT !.place[r] = to]
          /\ prompt' = IF prompt = r THEN None ELSE prompt
          /\ Settle({"place"})
  /\ UNCHANGED <<nextId, cached, work, selected, unaware>>

\* The prompt makes a folder and then asks to move the report there, which may
\* fail.  It does not fetch the folders again: an older answer may still come and
\* hide the new one.
PromptCreates(n, moved) ==
  LET w == [kind |-> "create", name |-> n]
      new == Create(n) IN
  /\ prompt # None /\ ~Refused(w)
  /\ moved => stored.place[prompt] # None
  /\ stored' = IF moved THEN [new EXCEPT !.place[prompt] = nextId] ELSE new
  /\ nextId' = nextId + 1
  /\ cached' = Shown(w)
  /\ IF moved THEN Settle({"place"}) /\ prompt' = None ELSE UNCHANGED <<fetch, prompt>>
  /\ unaware' = [unaware EXCEPT !.list = @ \/ fetch.list # None]
  /\ UNCHANGED <<work, selected>>

ClosePrompt ==
  /\ prompt # None /\ prompt' = None
  /\ UNCHANGED <<stored, nextId, cached, fetch, work, selected, unaware>>

Select(to) ==
  /\ to \in {All, Unfiled} \cup IdsIn(cached.list) /\ to # selected
  /\ selected' = to
  /\ UNCHANGED <<stored, nextId, cached, fetch, work, prompt, unaware>>

\* The user deletes a folder from another browser.
DeletedElsewhere(f) ==
  /\ f \in IdsIn(stored.list) \cap Elder
  /\ stored' = Delete(f)
  /\ unaware' = [q \in Queries |-> TRUE]
  /\ UNCHANGED <<nextId, cached, fetch, work, prompt, selected>>

FavoriteNext ==
  \/ Answered \/ ClosePrompt
  \/ \E q \in Queries : Refetch(q) \/ FetchRead(q) \/ FetchArrives(q) \/ FetchFails(q)
  \/ \E f \in Folders : AskDelete(f) \/ DeletedElsewhere(f)
  \/ \E n \in Names : AskCreate(n) \/ PromptCreates(n, TRUE) \/ PromptCreates(n, FALSE)
  \/ \E f \in Folders, n \in Names : AskRename(f, n)
  \/ \E i \in Folders : AskReorder(i)
  \/ \E r \in Reports : ToggleStar(r)
  \/ \E r \in Reports, to \in Places : Move(r, to)
  \/ \E to \in {All} \cup Folders : Select(to)

FavoriteSpec == FavoriteInit /\ [][FavoriteNext]_favoriteVars

-----------------------------------------------------------------------------
(* Properties.                                                             *)

\* Once no request for them is under way the browser shows the folders and the
\* favourites that are stored, in the order, with the names and in the places
\* they have there, and the selected folder is one of them; however reorders
\* shown in advance, refusals, and answers older than the last change have come
\* in between, unless a change was made where this browser could not learn it.
ShownIsStored ==
  \A q \in Queries : work = None /\ fetch[q] = None /\ ~unaware[q] =>
    /\ cached[q] = stored[q]
    /\ q = "list" => selected \in {All, Unfiled} \cup IdsIn(stored.list)
=============================================================================
