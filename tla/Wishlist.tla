------------------------------ MODULE Wishlist ------------------------------
(***************************************************************************)
(* The wishlist of one account on its devices.  A device shows a list and  *)
(* keeps a copy in its preferences; while a session is stored it also      *)
(* sends its list to sync_wishlist, which adds what fits and returns the   *)
(* account's rows.  Reading is a call with awaits in it: the list may be   *)
(* changed between its steps, and the app may be killed.                   *)
(***************************************************************************)
EXTENDS Integers, FiniteSets

CONSTANTS
    Devices,
    Items,          \* products of the catalogue
    Capacity,       \* 200
    MaxFailures,    \* bound on the calls of sync_wishlist that fail
    Shared          \* devices whose customers sign out

VARIABLES
    server,     \* product_id of the account's rows in wishlists
    local,      \* the copy in the preferences of each device
    screen,     \* WishlistState.ids
    session,    \* none, stored on the device, or announced by AuthCubit as well
    reads,      \* calls of restore that wait for sync_wishlist
    pushes,     \* lists sent by writeWishlist whose answer is due
    unsaved,    \* devices that show an error: WishlistStatus.error
    failures,
    wanted      \* what was put on the list and not taken off again

vars == <<server, local, screen, session, reads, pushes, unsaved, failures, wanted>>

SignedIn(d) == session[d] # "none"

\* rows of the list that the INSERT tries: LIMIT 200 - count, taken in the order of the
\* list and before ON CONFLICT; the order by id is any order
Attempted(ids) ==
    {try \in SUBSET ids :
       Cardinality(try) = IF Cardinality(ids) <= Capacity - Cardinality(server)
                          THEN Cardinality(ids)
                          ELSE IF Cardinality(server) < Capacity
                               THEN Capacity - Cardinality(server) ELSE 0}

\* sync_wishlist: the union, as far as it fits
Sync(ids) == \E try \in Attempted(ids) : server' = server \union try

Init ==
    /\ server = {}
    /\ local = [d \in Devices |-> {}]
    /\ screen = [d \in Devices |-> {}]
    /\ session = [d \in Devices |-> "none"]
    /\ reads = {}
    /\ pushes = {}
    /\ unsaved = {}
    /\ failures = 0
    /\ wanted = {}

\* restore, up to the call; a list that is empty by now will be replaced
Read(d, forced, shown) ==
    [device |-> d, step |-> "asked", sent |-> local[d], merged |-> {},
     replaces |-> forced \/ shown = {}]

\* restore(force: true) of a device with a session
Refresh(d) ==
    /\ reads' = reads \union {Read(d, TRUE, screen[d])}
    /\ unsaved' = unsaved \ {d}

\* the app is killed and started: what it sent is still on its way, without anybody
\* who waits for the answer
Restart(d) ==
    /\ session' = [session EXCEPT ![d] = IF SignedIn(d) THEN "stored" ELSE "none"]
    /\ LET others == {r \in reads : r.device # d}
       IN  IF SignedIn(d)
           THEN /\ reads' = others \union {Read(d, FALSE, {})}
                /\ screen' = [screen EXCEPT ![d] = {}]
           ELSE /\ reads' = others
                /\ screen' = [screen EXCEPT ![d] = local[d]]
    /\ pushes' = {[p EXCEPT !.heard = @ /\ p.device # d] : p \in pushes}
                 \union {[device |-> d, ids |-> r.sent, heard |-> FALSE] :
                           r \in {q \in reads : q.device = d /\ q.step = "asked"}}
    /\ unsaved' = unsaved \ {d}
    /\ UNCHANGED <<server, local, failures, wanted>>

\* AuthCubit turns to authenticated: after a sign-in, or when it has checked the session
Announce(d) ==
    /\ session[d] # "announced"
    /\ session' = [session EXCEPT ![d] = "announced"]
    /\ Refresh(d)
    /\ UNCHANGED <<server, local, screen, pushes, failures, wanted>>

\* the list stays on the device
SignOut(d) ==
    /\ d \in Shared
    /\ SignedIn(d)
    /\ session' = [session EXCEPT ![d] = "none"]
    /\ UNCHANGED <<server, local, screen, reads, pushes, unsaved, failures, wanted>>

\* toggle: shown, written to the device, and sent if there is a session
Toggle(d, i) ==
    LET next == IF i \in screen[d] THEN screen[d] \ {i} ELSE screen[d] \union {i}
    IN  /\ screen' = [screen EXCEPT ![d] = next]
        /\ local' = [local EXCEPT ![d] = next]
        /\ pushes' = IF SignedIn(d)
                      THEN pushes \union {[device |-> d, ids |-> next, heard |-> TRUE]}
                      ELSE pushes
        /\ unsaved' = unsaved \ {d}
        /\ wanted' = IF i \in next THEN wanted \union {i} ELSE wanted \ {i}
        /\ UNCHANGED <<server, session, reads, failures>>

Land(p) ==
    /\ p \in pushes
    /\ Sync(p.ids)
    /\ pushes' = pushes \ {p}
    /\ UNCHANGED <<local, screen, session, reads, unsaved, failures, wanted>>

\* the list may not be saved; the server may have seen it all the same, as in Land
LosePush(p) ==
    /\ p \in pushes
    /\ failures < MaxFailures
    /\ failures' = failures + 1
    /\ pushes' = pushes \ {p}
    /\ unsaved' = IF p.heard THEN unsaved \union {p.device} ELSE unsaved
    /\ Sync(p.ids) \/ server' = server
    /\ UNCHANGED <<local, screen, session, reads, wanted>>

Answer(r) ==
    /\ r \in reads
    /\ r.step = "asked"
    /\ Sync(r.sent)
    /\ reads' = (reads \ {r}) \union {[r EXCEPT !.step = "merged", !.merged = server']}
    /\ UNCHANGED <<local, screen, session, pushes, unsaved, failures, wanted>>

\* the merged list becomes the copy of the device
Store(r) ==
    /\ r \in reads
    /\ r.step = "merged"
    /\ local' = [local EXCEPT ![r.device] = r.merged]
    /\ reads' = (reads \ {r}) \union {[r EXCEPT !.step = "stored"]}
    /\ UNCHANGED <<server, screen, session, pushes, unsaved, failures, wanted>>

ShowList(r, ids) ==
    /\ screen' = [screen EXCEPT ![r.device] = IF r.replaces THEN ids ELSE @]
    /\ reads' = reads \ {r}
    /\ unsaved' = unsaved \ {r.device}

Show(r) ==
    /\ r \in reads
    /\ r.step = "stored"
    /\ ShowList(r, r.merged)
    /\ UNCHANGED <<server, local, session, pushes, failures, wanted>>

\* no answer, or none that arrives: the copy as it was read
LoseRead(r) ==
    /\ r \in reads
    /\ r.step \in {"asked", "merged"}
    /\ failures < MaxFailures
    /\ failures' = failures + 1
    /\ ShowList(r, r.sent)
    /\ UNCHANGED <<server, local, session, pushes, wanted>>

\* the retry button of the page; without a session the copy is read at once
Retry(d) ==
    /\ d \in unsaved
    /\ IF SignedIn(d)
       THEN Refresh(d) /\ screen' = screen
       ELSE /\ screen' = [screen EXCEPT ![d] = local[d]]
            /\ unsaved' = unsaved \ {d}
            /\ reads' = reads
    /\ UNCHANGED <<server, local, session, pushes, failures, wanted>>

Next ==
    \/ \E d \in Devices : Restart(d) \/ Announce(d) \/ SignOut(d) \/ Retry(d)
    \/ \E d \in Devices, i \in Items : Toggle(d, i)
    \/ \E p \in pushes : Land(p) \/ LosePush(p)
    \/ \E r \in reads : Answer(r) \/ Store(r) \/ Show(r) \/ LoseRead(r)

Spec == Init /\ [][Next]_vars

-----------------------------------------------------------------------------
\* where a wish may still be: on a device, on the server, or on its way to it
Kept ==
    server \union UNION {local[d] \union screen[d] : d \in Devices}
           \union UNION {p.ids : p \in pushes} \union UNION {r.sent : r \in {q \in reads : q.step = "asked"}}

\* 075_wishlist_sync.sql: "Nothing the user still wants is ever removed by a sync".
\* As long as the rows of the account leave room, a wish is remembered somewhere until
\* the customer takes it off the list.
WishesSurvive ==
    Cardinality(server \union wanted) <= Capacity => wanted \subseteq Kept
=============================================================================
