------------------------------ MODULE RelayLists ------------------------------
(****************************************************************************)
(* Relay lists (NIP-65): ingest/relay_list.rs, the pubkey_relays table of   *)
(* store/relays.rs, and the first half of fallback_recover (crawl/apply.rs),*)
(* which looks up an author's write relays and, if it knows none, fetches   *)
(* the relay list and stores it.  The second half, the fallback fetch, is   *)
(* in RelayHealth.                                                          *)
(*                                                                          *)
(* One author suffices: rows are keyed by author, and leases let one worker *)
(* at a time recover an author.  Successive batches recover it again.       *)
(****************************************************************************)
EXTENDS Ingest

CONSTANTS
    RelayList,   \* Kind::RelayList
    Author       \* the author under recovery

\* The r tags of a relay list: a url and read, write or nothing.
ASSUME RelayListConstants ==
    /\ Null \notin {"read", "write"}
    /\ \A e \in Events : e.kind = RelayList =>
          \A n \in DOMAIN e.tags : e.tags[n].meta \in {"read", "write", Null}

VARIABLES
    rows,      \* pubkey_relays of the author, as committed: a set of [url, marker]
    tx,        \* the same rows inside the open transaction
    pairs,     \* (url, marker) pairs still to be inserted
    found,     \* write_relays, as looked up
    pc,        \* where fallback_recover stands
    winner,    \* history: the event being stored,
    applied    \* history: and the last one committed

recoverVars == <<rows, tx, pairs, found, pc, winner, applied>>
vars == <<stream, future_clamp_secs, rows, tx, pairs, found, pc, winner, applied>>

-----------------------------------------------------------------------------
(* ingest/relay_list.rs *)

\* Mutant: a tag without a marker counts as a read relay.
marker_of_bare_reads(meta) == IF meta = Null THEN "read" ELSE meta

\* No marker advertises both.
marker_of(meta) == IF meta = Null THEN "both" ELSE meta

\* The r tags in order, repeats included.
extract_relay_pairs(e) ==
    [n \in DOMAIN e.tags |-> [url |-> e.tags[n].url, marker |-> marker_of(e.tags[n].meta)]]

resolve_relay_list(events) == pick_winner(gated(events, RelayList, {Author})[Author])

-----------------------------------------------------------------------------
(* fallback_recover *)

\* Mutant: every row is a write relay.
lookup_write_relays_any == {r.url : r \in rows}

lookup_write_relays == {r.url : r \in {q \in rows : q.marker \in {"write", "both"}}}

Init ==
    /\ IngestInit
    /\ rows = {} /\ tx = {} /\ pairs = <<>> /\ found = {}
    /\ pc = "idle"
    /\ winner = Null /\ applied = Null

\* The curated relays are asked only if no write relay is stored.
Lookup ==
    /\ pc = "idle"
    /\ found' = lookup_write_relays
    /\ pc' = IF found' = {} THEN "fetch" ELSE "route"
    /\ UNCHANGED <<stream, future_clamp_secs, rows, tx, pairs, winner, applied>>

\* relay_list_fetch gathers the relays' answers.
Gather ==
    /\ pc = "fetch"
    /\ \E e \in Events : Deliver(e)
    /\ UNCHANGED recoverVars

\* The fetch returned Ok: a winner is stored, without one the rows are read again.
Resolve ==
    /\ pc = "fetch"
    /\ LET w == resolve_relay_list(stream) IN
       /\ winner' = w
       /\ pc' = IF w # Null THEN "begin" ELSE "reread"
       /\ pairs' = IF w # Null THEN extract_relay_pairs(w) ELSE <<>>
    /\ stream' = <<>>
    /\ UNCHANGED <<future_clamp_secs, rows, tx, found, applied>>

\* The fetch returned an error, which is ignored.
FetchFails ==
    /\ pc = "fetch"
    /\ pc' = "reread"
    /\ stream' = <<>>
    /\ UNCHANGED <<future_clamp_secs, rows, tx, pairs, found, winner, applied>>

\* Mutant: each statement commits by itself.
statement_autocommits(after) == tx' = after /\ rows' = after

\* A statement of apply_relay_list sees and changes the transaction only.
statement(after) == tx' = after /\ UNCHANGED rows

\* The transaction opens with the DELETE of all rows of the author.
DeleteRows ==
    /\ pc = "begin"
    /\ statement({})
    /\ pc' = "insert"
    /\ UNCHANGED <<stream, future_clamp_secs, pairs, found, winner, applied>>

\* INSERT ... ON CONFLICT (pubkey_id, url) DO NOTHING: the first marker stays.
InsertRow ==
    /\ pc = "insert" /\ pairs # <<>>
    /\ statement(IF \E r \in tx : r.url = Head(pairs).url
                 THEN tx ELSE tx \cup {Head(pairs)})
    /\ pairs' = Tail(pairs)
    /\ UNCHANGED <<stream, future_clamp_secs, found, pc, winner, applied>>

CommitList ==
    /\ pc = "insert" /\ pairs = <<>>
    /\ rows' = tx
    /\ applied' = winner
    /\ pc' = "reread"
    /\ UNCHANGED <<stream, future_clamp_secs, tx, pairs, found, winner>>

Reread ==
    /\ pc = "reread"
    /\ found' = lookup_write_relays
    /\ pc' = "route"
    /\ UNCHANGED <<stream, future_clamp_secs, rows, tx, pairs, winner, applied>>

\* Nothing is open, nothing under way.
Reset ==
    /\ stream' = <<>> /\ tx' = {} /\ pairs' = <<>> /\ found' = {} /\ winner' = Null
    /\ pc' = "idle"
    /\ UNCHANGED future_clamp_secs

\* No write relays: not_found.  Otherwise they are ranked, cut and asked.
Routed ==
    /\ pc = "route"
    /\ Reset
    /\ UNCHANGED <<rows, applied>>

\* A crash or a StoreError: an open transaction is rolled back; a commit may still
\* have taken place when its acknowledgement is lost.
Fail ==
    /\ pc # "idle"
    /\ Reset
    /\ UNCHANGED <<rows, applied>>

Next ==
    \/ Lookup \/ Gather \/ Resolve \/ FetchFails
    \/ DeleteRows \/ InsertRow \/ CommitList \/ Reread
    \/ Routed \/ Fail

Spec == Init /\ [][Next]_vars

-----------------------------------------------------------------------------
\* What the author's event says of its relays: the first tag of a url counts.
FirstMeta(e, url) ==
    LET n == CHOOSE n \in DOMAIN e.tags :
                /\ e.tags[n].url = url
                /\ \A m \in 1..(n - 1) : e.tags[m].url # url
    IN  e.tags[n].meta

Advertised(e) == {e.tags[n].url : n \in DOMAIN e.tags}
WritesTo(e) == {url \in Advertised(e) : FirstMeta(e, url) # "read"}

\* INGEST-01..05 for relay lists: the resolved event is the one that the set of
\* events determines, forged copies, repeats and other authors among them.
RelayListIsReference ==
    {resolve_relay_list(stream)} \ {Null} = Reference(RelayList, Author)

\* "a crash mid-replace must never leave a half-applied relay list": the stored rows
\* are those of one event the author signed, url by url, or there are none.
OneListStored ==
    IF applied = Null THEN rows = {}
    ELSE /\ {r.url : r \in rows} = Advertised(applied)
         /\ Cardinality(rows) = Cardinality(Advertised(applied))

\* The fallback asks exactly the relays that the stored list names for writing, a
\* bare tag being one, never a read relay, and none if it names none.
RoutesToWriteRelays ==
    pc = "route" => found = IF applied = Null THEN {} ELSE WritesTo(applied)
=============================================================================
