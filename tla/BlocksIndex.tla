---------------------------- MODULE BlocksIndex -----------------------------
(***************************************************************************)
(* What the indexers promise whoever reads the blocks and miniblocks in    *)
(* the database, with no queue, request, refresh, failure or retry in      *)
(* sight.  The node of a shard works at one item at a time, the save or    *)
(* the removal of a block.  While it does, it may write what the item is   *)
(* about, any of it and any number of times; it reports the item done only *)
(* when the indexes show it; or the node is lost, and has reported         *)
(* nothing.  The module BlockIndexing is the implementation.               *)
(***************************************************************************)
EXTENDS MiniblockDocuments

CONSTANTS Shards, EnabledIndexes

VARIABLES
  headers,          \* the documents of the "blocks" index
  documents,        \* documents[m]: the document of m in the "miniblocks" index
  current,          \* current[s]: the item of the node of s, or NoItem
  reported          \* the blocks whose last item done was a save

vars == <<headers, documents, current, reported>>

Init ==
  /\ headers = {}
  /\ documents = [m \in Miniblocks |-> NoDoc]
  /\ current = [s \in Shards |-> NoItem]
  /\ reported = {}

Begin(s) ==
  /\ current[s] = NoItem
  /\ \E item \in Item :
       shardOf[item.block] = s /\ current' = [current EXCEPT ![s] = item]
  /\ UNCHANGED <<headers, documents, reported>>

\* A save writes its header and any of its miniblocks, whatever it was told of
\* those that are there; a removal removes its header and any of the miniblocks
\* that no other shard's block has put there.
WriteSome(item) ==
  LET b == item.block
      save == item.op = "save"
  IN /\ headers' \in {headers, IF save THEN headers \cup {b} ELSE headers \ {b}}
     /\ DOMAIN documents' = Miniblocks
     /\ \A m \in Miniblocks :
          \/ documents'[m] = documents[m]
          \/ /\ save
             /\ m \in body[b]
             /\ \E exists \in BOOLEAN : documents'[m] = Written(b, m, exists, documents[m])
          \/ ~save /\ m \in Removable(b) /\ documents'[m] = NoDoc

Write(s) ==
  /\ current[s] # NoItem
  /\ UNCHANGED <<current, reported>>
  /\ WriteSome(current[s])

\* What of b its shard has sent is there, and names b when it stays in the shard:
\* of the others, the receiver's node has a say.  Of the miniblocks of a block
\* that is removed nothing is promised.
SentShown(b) ==
  \A m \in body[b] : sender[m] = shardOf[b] =>
    /\ documents[m].exists
    /\ ~Cross(m) => documents[m].senderBlockHash = b

Shows(item) ==
  /\ "blocks" \in EnabledIndexes => (item.op = "save" <=> item.block \in headers)
  /\ "miniblocks" \in EnabledIndexes /\ item.op = "save" => SentShown(item.block)

\* The last write of an item may be what makes the indexes show it.
Report(s) ==
  \E item \in Item \cap {current[s]} :
    /\ current' = [current EXCEPT ![s] = NoItem]
    /\ reported' = IF item.op = "save" THEN reported \cup {item.block}
                                      ELSE reported \ {item.block}
    /\ WriteSome(item)
    /\ Shows(item)'

Lose(s) ==
  /\ current[s] # NoItem
  /\ current' = [current EXCEPT ![s] = NoItem]
  /\ UNCHANGED <<headers, documents, reported>>

Next == \E s \in Shards : Begin(s) \/ Write(s) \/ Report(s) \/ Lose(s)

Spec == Init /\ [][Next]_vars
=============================================================================
