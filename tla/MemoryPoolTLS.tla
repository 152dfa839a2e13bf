--------------------------- MODULE MemoryPoolTLS ---------------------------
(***************************************************************************)
(* CMemoryPool_TLS: each thread takes blocks from a chunk of its own,      *)
(* which nobody else takes from, and gets a new chunk with the last block  *)
(* of the old one.  Any thread gives a block back; whoever gives back the  *)
(* last one frees the chunk.                                               *)
(*                                                                         *)
(* One action is one access to memory that threads share.  The code is     *)
(* kept where it is surprising: the lock around the list of the threads'   *)
(* nodes is commented out, so a node can be lost; Chunk_Alloc follows a    *)
(* node before it asks whether it is NULL; and Free reads FullCnt after    *)
(* it has counted its block, when another thread may have freed the chunk. *)
(* What is read from a chunk that was freed may be anything.               *)
(*                                                                         *)
(* Left out: the memory of the blocks, which free (this) never gives back, *)
(* and m_iBlockCount, which nothing initialises and nothing depends on.    *)
(***************************************************************************)
EXTENDS Naturals, Sequences

CONSTANTS
  Owners,     \* the threads that use the pool
  NoOwner,    \* NULL
  ChunkSize,  \* Chunk_in_BlockCnt
  MaxChunks   \* bound: no Alloc begins when that many chunks have been made

ASSUME NoOwnerIsNone == NoOwner \notin Owners
ASSUME ChunkSizeAssumption == ChunkSize \in Nat \ {0}

VARIABLES
  freers,     \* the threads that call Free: the same for the life of a pool
  apart,      \* no thread makes its first Alloc while another is in its own
  pTopNode,   \* _pTopNode: the owner of the first node
  pNextNode,  \* pNextNode of each owner's node
  pChunk,     \* pChunk of each owner's node, 0 while TlsGetValue gives NULL
  chunks,     \* the chunks made: _Top, FreeCnt, and whether it has not been freed
  taken,      \* the blocks the users of the pool hold: a chunk and a place in it
  ts          \* each thread: the access it makes next, and its locals

tlsVars == <<freers, apart, pTopNode, pNextNode, pChunk, chunks, taken, ts>>

Resting == [at |-> "out", chunk |-> 0, cnt |-> 0, node |-> NoOwner]

\* ChunkSetting
NewChunk == [Top |-> 0, FreeCnt |-> 0, live |-> TRUE]

\* CMemoryPool_TLS(iBlockNum)
TlsInit ==
  /\ freers \in SUBSET Owners /\ apart \in BOOLEAN
  /\ pTopNode = NoOwner
  /\ pNextNode = [o \in Owners |-> NoOwner]
  /\ pChunk = [o \in Owners |-> 0]
  /\ chunks = <<>> /\ taken = {}
  /\ ts = [o \in Owners |-> Resting]

Turns(o, from, new) == ts[o].at = from /\ ts' = [ts EXCEPT ![o] = new]

-----------------------------------------------------------------------------
(* Alloc *)

\* The node and its chunk are made, TlsSetValue, and the top is read into pNextNode.
FirstAlloc(o) ==
  /\ pChunk[o] = 0 /\ Len(chunks) < MaxChunks
  /\ apart => \A p \in Owners : ts[p].at # "linkNode"
  /\ Turns(o, "out", [Resting EXCEPT !.at = "linkNode"])
  /\ chunks' = Append(chunks, NewChunk)
  /\ pChunk' = [pChunk EXCEPT ![o] = Len(chunks')]
  /\ pNextNode' = [pNextNode EXCEPT ![o] = pTopNode]
  /\ UNCHANGED <<freers, apart, pTopNode, taken>>

\* Slip: the new node replaces the list.
Slip_LinkNode(o) ==
  /\ Turns(o, "linkNode", [Resting EXCEPT !.at = "take"])
  /\ pTopNode' = o /\ pNextNode' = [pNextNode EXCEPT ![o] = NoOwner]
  /\ UNCHANGED <<freers, apart, pChunk, chunks, taken>>

\* _pTopNode = pChunkNode
LinkNode(o) ==
  /\ Turns(o, "linkNode", [Resting EXCEPT !.at = "take"])
  /\ pTopNode' = o
  /\ UNCHANGED <<freers, apart, pNextNode, pChunk, chunks, taken>>

NextAlloc(o) ==
  /\ pChunk[o] # 0 /\ Len(chunks) < MaxChunks
  /\ Turns(o, "out", [Resting EXCEPT !.at = "take"])
  /\ UNCHANGED <<freers, apart, pTopNode, pNextNode, pChunk, chunks, taken>>

\* Slip: the chunk is replaced by the call that finds it used up.
Slip_TakeBlock(o) ==
  LET c == pChunk[o]
      n == chunks[c].Top + 1
  IN /\ Turns(o, "take", IF ~chunks[c].live THEN [Resting EXCEPT !.at = "fault"]
                         ELSE IF n > ChunkSize
                              THEN [Resting EXCEPT !.at = "search", !.chunk = c, !.cnt = n]
                              ELSE Resting)
     /\ chunks' = [chunks EXCEPT ![c].Top = n]
     /\ taken' = IF chunks[c].live /\ n <= ChunkSize THEN taken \cup {<<c, n>>} ELSE taken
     /\ UNCHANGED <<freers, apart, pTopNode, pNextNode, pChunk>>

\* InterlockedIncrement (&_Top): the last block is not returned before the chunk has been
\* replaced.
TakeBlock(o) ==
  LET c == pChunk[o]
      n == chunks[c].Top + 1
  IN /\ Turns(o, "take", IF ~chunks[c].live THEN [Resting EXCEPT !.at = "fault"]
                         ELSE IF n = ChunkSize
                              THEN [Resting EXCEPT !.at = "search", !.chunk = c, !.cnt = n]
                              ELSE Resting)
     /\ chunks' = [chunks EXCEPT ![c].Top = n]
     /\ taken' = IF chunks[c].live /\ n < ChunkSize THEN taken \cup {<<c, n>>} ELSE taken
     /\ UNCHANGED <<freers, apart, pTopNode, pNextNode, pChunk>>

\* Chunk_Alloc begins at the top.
Search(o) ==
  /\ Turns(o, "search", [ts[o] EXCEPT !.at = "seek", !.node = pTopNode])
  /\ UNCHANGED <<freers, apart, pTopNode, pNextNode, pChunk, chunks, taken>>

\* pPreTopNode->ThreadID, of NULL too: a thread whose node is not in the list.
SeekPast(o) ==
  /\ ts[o].node # o
  /\ Turns(o, "seek", IF ts[o].node = NoOwner THEN [ts[o] EXCEPT !.at = "null"]
                      ELSE [ts[o] EXCEPT !.node = pNextNode[@]])
  /\ UNCHANGED <<freers, apart, pTopNode, pNextNode, pChunk, chunks, taken>>

Replace(o) ==
  /\ ts[o].node = o
  /\ Turns(o, "seek", Resting)
  /\ chunks' = Append(chunks, NewChunk)
  /\ pChunk' = [pChunk EXCEPT ![o] = Len(chunks')]
  /\ taken' = taken \cup {<<ts[o].chunk, ts[o].cnt>>}
  /\ UNCHANGED <<freers, apart, pTopNode, pNextNode>>

-----------------------------------------------------------------------------
(* Free, of a block its holder has done with *)

\* InterlockedIncrement (&FreeCnt)
CountFreed(o) ==
  /\ o \in freers
  /\ \E b \in taken :
       LET c == b[1] IN
       /\ Turns(o, "out", IF chunks[c].live
                          THEN [Resting EXCEPT !.at = "compare", !.chunk = c,
                                               !.cnt = chunks[c].FreeCnt + 1]
                          ELSE [Resting EXCEPT !.at = "fault"])
       /\ chunks' = [chunks EXCEPT ![c].FreeCnt = @ + 1]
       /\ taken' = taken \ {b}
  /\ UNCHANGED <<freers, apart, pTopNode, pNextNode, pChunk>>

\* Slip: the chunk is freed one block too early.
Slip_FreeChunk(o) ==
  LET c == ts[o].chunk
      full == ts[o].cnt >= ChunkSize - 1
  IN /\ Turns(o, "compare", Resting)
     /\ chunks' = IF full THEN [chunks EXCEPT ![c].live = FALSE] ELSE chunks
     /\ UNCHANGED <<freers, apart, pTopNode, pNextNode, pChunk, taken>>

\* Cnt == FullCnt, and free (this).
FreeChunk(o) ==
  LET c == ts[o].chunk
      full == ts[o].cnt = ChunkSize
  IN /\ Turns(o, "compare", Resting)
     /\ chunks[c].live
     /\ chunks' = IF full THEN [chunks EXCEPT ![c].live = FALSE] ELSE chunks
     /\ UNCHANGED <<freers, apart, pTopNode, pNextNode, pChunk, taken>>

\* FullCnt is read from a chunk that has been freed: it is freed again or not.
CompareFreed(o) ==
  /\ \E at \in {"out", "fault"} : Turns(o, "compare", [Resting EXCEPT !.at = at])
  /\ ~chunks[ts[o].chunk].live
  /\ UNCHANGED <<freers, apart, pTopNode, pNextNode, pChunk, chunks, taken>>

-----------------------------------------------------------------------------
TlsAlloc(o) ==
  \/ FirstAlloc(o) \/ LinkNode(o) \/ NextAlloc(o) \/ TakeBlock(o) \/ Search(o) \/ SeekPast(o)
  \/ Replace(o)

TlsFree(o) == CountFreed(o) \/ FreeChunk(o) \/ CompareFreed(o)

\* A thread that follows NULL or damages the heap takes the process with it.
TlsAlive == \A o \in Owners : ts[o].at \notin {"null", "fault"}

TlsNext == TlsAlive /\ \E o \in Owners : TlsAlloc(o) \/ TlsFree(o)

TlsSpec == TlsInit /\ [][TlsNext]_tlsVars

-----------------------------------------------------------------------------
(* Properties *)

\* The chunk a thread takes blocks from has not been freed, whoever gives blocks back and
\* when: its last block cannot be given back before the thread has another chunk.
OwnerKeepsChunk == \A o \in Owners : pChunk[o] # 0 => chunks[pChunk[o]].live

LoneFreer == \A o, p \in freers : o = p

\* When only one thread gives blocks back, whichever threads took them, no chunk is freed
\* twice and no freed chunk is counted in; the test for the last block needs no lock then.
LoneFreerSafe == LoneFreer => \A o \in Owners : ts[o].at # "fault"

\* When the first Allocs of threads do not overlap, every thread finds its node in the list
\* when its chunk is used up, although the list has no lock.
ApartSafe == apart => \A o \in Owners : ts[o].at # "null"
=============================================================================
