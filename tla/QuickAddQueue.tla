------------------------------ MODULE QuickAddQueue ------------------------------
(***************************************************************************)
(* The quick-add page: entries captured on a phone, posted to the server   *)
(* at once or kept in an IndexedDB queue that every open page synchronizes *)
(* when it can.                                                            *)
(*                                                                         *)
(* A step is one storage operation, one HTTP answer, or one user action:   *)
(* what JavaScript does between two awaits is one step with the await that *)
(* ends it.  setStatus reads an item and puts it back in two storage       *)
(* transactions.  An HTTP request whose page gives up or dies may still    *)
(* reach the server, then or later.                                        *)
(***************************************************************************)
EXTENDS Naturals

CONSTANTS
    Pages,    \* open pages (tabs), which share the storage
    Items,    \* captured entries; their order is that of createdAt
    Tagged    \* the entries captured with trip tags

ASSUME QuickAddAssumption ==
    /\ Items \subseteq Nat
    /\ Tagged \subseteq Items

VARIABLES
    queue,    \* queue[i]: the status of i in storage, "none" if it is not there
    posted,   \* entries the ledger has, by their client-generated guid
    tagged,   \* entries whose trip tags the server has
    removed,  \* entries the user deleted from the queue
    wire,     \* entries of requests nobody waits for any more
    shown,    \* entries that some page has shown as failed
    retrying, \* entries of which a retry has read the stored item
    save,     \* save[i]: how far handleSave has come with i
    at,       \* at[p]: how far p's syncAll has come
    left,     \* left[p]: the candidates of p's run still to be handled
    cur       \* cur[p]: the one it is at

queueVars == <<queue, posted, tagged, removed, wire, shown, retrying, save, at, left, cur>>
server == <<posted, tagged, wire>>
user == <<removed, shown, retrying>>
run == <<at, left, cur>>

Stored == {"pending", "syncing", "failed"}
SaveStates == {"new", "posting", "tagging", "enqueuing", "saved", "queued", "gone"}
RunStates == {"idle", "loop", "got", "marking", "posting", "tagging", "synced",
              "failing", "failput"}

QueueTypeOK ==
    /\ queue \in [Items -> Stored \cup {"none"}]
    /\ posted \subseteq Items /\ tagged \subseteq Tagged
    /\ removed \subseteq Items /\ wire \subseteq Items
    /\ shown \subseteq Items /\ retrying \subseteq Items
    /\ save \in [Items -> SaveStates]
    /\ at \in [Pages -> RunStates]
    /\ left \in [Pages -> SUBSET Items]
    /\ cur \in [Pages -> Items]
    /\ \A p \in Pages : at[p] \notin {"idle", "loop"} => cur[p] \in left[p]
    /\ \A p \in Pages : at[p] = "tagging" => cur[p] \in Tagged
    /\ \A i \in Items : queue[i] # "none" => save[i] = "queued"

QueueInit ==
    /\ queue = [i \in Items |-> "none"]
    /\ posted = {} /\ tagged = {} /\ removed = {}
    /\ wire = {} /\ shown = {} /\ retrying = {}
    /\ save = [i \in Items |-> "new"]
    /\ at = [p \in Pages |-> "idle"]
    /\ left = [p \in Pages |-> {}]
    /\ cur \in [Pages -> Items]

---------------------------------------------------------------------------------
(* The server, and postQuickAdd's reading of its answers. *)

\* Mutant: every answer of the server is taken for a success.
ServesAnyhow(i, ok) == ok /\ posted' \in {posted, posted \cup {i}}

\* POST /api/transactions: i is inserted and the answer is 201, or something
\* fails after the commit, or the request is refused, or the guid exists
\* already -- and for all of these the answer is an error: the route answers a
\* duplicate guid with 500 "Failed to create transaction", which
\* ALREADY_SYNCED_RE does not match.
Serves(i, ok) ==
    \/ i \notin posted /\ posted' = posted \cup {i}
    \/ ~ok /\ UNCHANGED posted

\* Mutant: the answer of the tags request is not looked at.
TagsAnyhow(i, ok) == ok /\ tagged' \in {tagged, tagged \cup {i}}

\* PUT .../tags, which replaces the list and may be repeated.
Tags(i, ok) ==
    \/ tagged' = tagged \cup {i}
    \/ ~ok /\ UNCHANGED tagged

\* Network error: nobody knows whether the server has, or will, see the request.
GivesUp(i) == wire' = wire \cup {i} /\ UNCHANGED <<posted, tagged>>

\* A request on the wire arrives after all, or never does.
Late(i) ==
    /\ i \in wire
    /\ wire' = wire \ {i}
    /\ posted' \in {posted, posted \cup {i}}
    /\ UNCHANGED <<queue, tagged, user, save, run>>

---------------------------------------------------------------------------------
(* handleSave. *)

\* Offline, the entry goes to the queue; online, it is posted first.
Capture(i) ==
    /\ save[i] = "new"
    /\ \E s \in {"posting", "enqueuing"} : save' = [save EXCEPT ![i] = s]
    /\ UNCHANGED <<queue, server, user, run>>

AfterPost(i, ok) ==
    IF ~ok THEN "enqueuing" ELSE IF i \in Tagged THEN "tagging" ELSE "saved"

SavePost(i) ==
    /\ save[i] = "posting"
    /\ \/ \E ok \in BOOLEAN : /\ Serves(i, ok)
                              /\ save' = [save EXCEPT ![i] = AfterPost(i, ok)]
                              /\ UNCHANGED <<tagged, wire>>
       \/ GivesUp(i) /\ save' = [save EXCEPT ![i] = "enqueuing"]
    /\ UNCHANGED <<queue, user, run>>

SaveTags(i) ==
    /\ save[i] = "tagging"
    /\ \E ok \in BOOLEAN :
         /\ Tags(i, ok)
         /\ save' = [save EXCEPT ![i] = IF ok THEN "saved" ELSE "enqueuing"]
    /\ UNCHANGED <<queue, posted, wire, user, run>>

\* enqueue: "Queued -- will sync when online".
Enqueue(i) ==
    /\ save[i] = "enqueuing"
    /\ queue' = [queue EXCEPT ![i] = "pending"]
    /\ save' = [save EXCEPT ![i] = "queued"]
    /\ UNCHANGED <<server, user, run>>

\* The page dies before it has told the user anything.
SaveDies(i) ==
    /\ save[i] \in {"posting", "tagging", "enqueuing"}
    /\ save' = [save EXCEPT ![i] = "gone"]
    /\ wire' = IF save[i] = "posting" THEN wire \cup {i} ELSE wire
    /\ UNCHANGED <<queue, posted, tagged, user, run>>

---------------------------------------------------------------------------------
(* syncAll: on mount, when the browser comes online, on request; a call while
   the page's own run is in flight joins it. *)

At(p, s) == at[p] = s
Goto(p, s) == at' = [at EXCEPT ![p] = s] /\ UNCHANGED <<left, cur>>
Done(p) == /\ at' = [at EXCEPT ![p] = "loop"]
           /\ left' = [left EXCEPT ![p] = @ \ {cur[p]}]
           /\ UNCHANGED cur

\* Mutant: the failed items are not included.
ListPendingOnly(p) ==
    /\ At(p, "idle")
    /\ at' = [at EXCEPT ![p] = "loop"]
    /\ left' = [left EXCEPT ![p] = {i \in Items : queue[i] = "pending"}]
    /\ UNCHANGED <<queue, server, user, save, cur>>

\* listAll: the hook always includes the failed items.
List(p) ==
    /\ At(p, "idle")
    /\ at' = [at EXCEPT ![p] = "loop"]
    /\ left' = [left EXCEPT ![p] = {i \in Items : queue[i] \in {"pending", "failed"}}]
    /\ UNCHANGED <<queue, server, user, save, cur>>

\* The oldest candidate is read again: another page may have it by now.
Reread(p) ==
    /\ At(p, "loop")
    /\ \E i \in left[p] :
         /\ \A j \in left[p] : i <= j
         /\ IF queue[i] \in {"none", "syncing"}
            THEN left' = [left EXCEPT ![p] = @ \ {i}] /\ UNCHANGED <<at, cur>>
            ELSE /\ cur' = [cur EXCEPT ![p] = i]
                 /\ at' = [at EXCEPT ![p] = "got"]
                 /\ UNCHANGED left
    /\ UNCHANGED <<queue, server, user, save>>

Finish(p) ==
    /\ At(p, "loop") /\ left[p] = {}
    /\ Goto(p, "idle")
    /\ UNCHANGED <<queue, server, user, save>>

\* setStatus(syncing): get; nothing is put if the item has gone, and it is
\* posted all the same.
GetToMark(p) ==
    /\ At(p, "got")
    /\ Goto(p, IF queue[cur[p]] = "none" THEN "posting" ELSE "marking")
    /\ UNCHANGED <<queue, server, user, save>>

PutSyncing(p) ==
    /\ At(p, "marking")
    /\ queue' = [queue EXCEPT ![cur[p]] = "syncing"]
    /\ Goto(p, "posting")
    /\ UNCHANGED <<server, user, save>>

SyncPost(p) ==
    /\ At(p, "posting")
    /\ \/ \E ok \in BOOLEAN :
            /\ Serves(cur[p], ok)
            /\ Goto(p, IF ~ok THEN "failing"
                       ELSE IF cur[p] \in Tagged THEN "tagging" ELSE "synced")
            /\ UNCHANGED <<tagged, wire>>
       \/ GivesUp(cur[p]) /\ Goto(p, "failing")
    /\ UNCHANGED <<queue, user, save>>

SyncTags(p) ==
    /\ At(p, "tagging")
    /\ \E ok \in BOOLEAN : /\ Tags(cur[p], ok)
                           /\ Goto(p, IF ok THEN "synced" ELSE "failing")
    /\ UNCHANGED <<queue, posted, wire, user, save>>

Drop(p) ==
    /\ At(p, "synced")
    /\ queue' = [queue EXCEPT ![cur[p]] = "none"]
    /\ Done(p)
    /\ UNCHANGED <<server, user, save>>

\* setStatus(failed): get, put.
GetToFail(p) ==
    /\ At(p, "failing")
    /\ IF queue[cur[p]] = "none" THEN Done(p) ELSE Goto(p, "failput")
    /\ UNCHANGED <<queue, server, user, save>>

PutFailed(p) ==
    /\ At(p, "failput")
    /\ queue' = [queue EXCEPT ![cur[p]] = "failed"]
    /\ shown' = shown \cup {cur[p]}
    /\ Done(p)
    /\ UNCHANGED <<server, removed, retrying, save>>

\* The page is closed, reloaded or killed amid its run; a new one may be
\* opened.
PageDies(p) ==
    /\ left[p] # {}
    /\ at' = [at EXCEPT ![p] = "idle"]
    /\ left' = [left EXCEPT ![p] = {}]
    /\ wire' = IF At(p, "posting") THEN wire \cup {cur[p]} ELSE wire
    /\ UNCHANGED <<queue, posted, tagged, user, save, cur>>

---------------------------------------------------------------------------------
(* The user and the list of queued entries. *)

\* Retry is offered for what the page shows as failed, which may be stale:
\* setStatus(pending), get and put.
RetryGet(i) ==
    /\ i \in shown /\ queue[i] # "none"
    /\ retrying' = retrying \cup {i}
    /\ UNCHANGED <<queue, server, removed, shown, save, run>>

RetryPut(i) ==
    /\ i \in retrying
    /\ queue' = [queue EXCEPT ![i] = "pending"]
    /\ retrying' = retrying \ {i}
    /\ UNCHANGED <<server, removed, shown, save, run>>

Remove(i) ==
    /\ save[i] = "queued"
    /\ queue[i] # "none"
    /\ queue' = [queue EXCEPT ![i] = "none"]
    /\ removed' = removed \cup {i}
    /\ UNCHANGED <<server, shown, retrying, save, run>>

Sync(p) == \/ List(p) \/ Reread(p) \/ Finish(p) \/ GetToMark(p) \/ PutSyncing(p)
           \/ SyncPost(p) \/ SyncTags(p) \/ Drop(p) \/ GetToFail(p) \/ PutFailed(p)

Save(i) == SavePost(i) \/ SaveTags(i) \/ Enqueue(i)

QueueNext == \/ \E p \in Pages : Sync(p) \/ PageDies(p)
        \/ \E i \in Items : \/ Capture(i) \/ Save(i) \/ SaveDies(i) \/ Late(i)
                            \/ RetryGet(i) \/ RetryPut(i) \/ Remove(i)

QueueSpec == QueueInit /\ [][QueueNext]_queueVars

\* Some page is at last left open: it runs on, and lists again (on mount, on
\* reconnection); a retry that has begun ends.  A server that is asked again
\* and again for an entry it does not have in the end takes it, and its tags,
\* and the answer arrives.
Taken(p) == At(p, "posting") /\ SyncPost(p) /\ at'[p] # "failing"
TagsTaken(p) == At(p, "tagging") /\ SyncTags(p) /\ at'[p] # "failing"
LeftOpen(p) == <>[][~PageDies(p)]_queueVars
QueueFairness ==
    /\ \A p \in Pages : /\ WF_queueVars(Sync(p)) /\ LeftOpen(p)
                        /\ SF_queueVars(Taken(p)) /\ SF_queueVars(TagsTaken(p))
    /\ \A i \in Items : WF_queueVars(Save(i)) /\ WF_queueVars(RetryPut(i))

QueueFairSpec == QueueSpec /\ QueueFairness

---------------------------------------------------------------------------------
(* Properties. *)

\* An entry the user was told is saved or queued is never lost: until the user
\* deletes it, it is in the queue or in the ledger, whatever answers were lost
\* and whichever pages died or worked on it at the same time.
NothingIsLost ==
    \A i \in Items : save[i] \in {"saved", "queued"} =>
      queue[i] # "none" \/ i \in posted \/ i \in removed

\* ... and it leaves the queue only with its trip tags.
TagsFollow ==
    \A i \in Tagged : save[i] \in {"saved", "queued"} =>
      queue[i] # "none" \/ i \in tagged \/ i \in removed

\* Nobody works on a stored item marked "syncing": its page died, and neither
\* syncAll nor the list's Retry button takes it up.
Works(p, i) == cur[p] = i /\ at[p] \notin {"idle", "loop"}
Orphaned(i) == queue[i] = "syncing" /\ \A p \in Pages : ~Works(p, i)

\* Queued entries get to the server, unless they are deleted or their page dies
\* while it works on them.
EventuallyPosted ==
    \A i \in Items : save[i] = "queued" ~> i \in posted \/ i \in removed \/ Orphaned(i)
=================================================================================
