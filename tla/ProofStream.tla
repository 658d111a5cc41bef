---------------------------- MODULE ProofStream ----------------------------
(***************************************************************************)
(* GetProofsReader of the v1 keeper, and the ProofRW it returns: the       *)
(* proofs of the spaces that have the asked states are gathered by the     *)
(* worker pool, then written to a channel behind a mutex, which the end of *)
(* the caller's context closes too.  GetProofReader is the same with one   *)
(* space.                                                                  *)
(***************************************************************************)
EXTENDS Naturals, Sequences, FiniteSets

CONSTANTS ProofSpaces  \* the spaces of the keeper

ASSUME ProofSpacesAssumption == IsFiniteSet(ProofSpaces)

VARIABLE stream

NoStream == [items |-> {}, left |-> {}, refused |-> FALSE, proofs |-> {}, pc |-> "gather",
             lock |-> "none", ch |-> <<>>, closed |-> FALSE, ctx |-> "live",
             read |-> {}, eof |-> FALSE]

\* GetProofsReader: the spaces are picked before its goroutine begins
StreamInit(kinds) == stream \in {[NoStream EXCEPT !.items = s, !.left = s] : s \in kinds}

\* NewProofRW(ctx, len(items))
BufSize == Cardinality(stream.items)

-----------------------------------------------------------------------------
(* getProofs *)

\* a worker has the space's proof, or its error, and resultCh has taken it
Answer(s) ==
    /\ stream.pc = "gather" /\ s \in stream.left
    /\ stream' = [stream EXCEPT !.left = @ \ {s}, !.proofs = @ \cup {s}]

\* Submit fails: nothing is said of that space
Refuse(s) ==
    /\ stream.pc = "gather" /\ s \in stream.left
    /\ stream' = [stream EXCEPT !.left = @ \ {s}, !.refused = TRUE]

\* Bug: the workers are not waited for
GatheredNoWait == stream.pc = "gather" /\ stream' = [stream EXCEPT !.pc = "write"]

\* wg.Wait, waitCh
AllGathered ==
    /\ stream.pc = "gather" /\ stream.left = {}
    /\ stream' = [stream EXCEPT !.pc = "write"]

-----------------------------------------------------------------------------
(* ProofRW *)

Locks(who) == stream.lock = "none" /\ stream' = [stream EXCEPT !.lock = who]

\* Write begins, for the next proof of the map; or the writer comes to its Close
WriterLocks ==
    /\ stream.pc = "write"
    /\ IF stream.proofs # {} THEN Locks("writer")
       ELSE stream' = [stream EXCEPT !.pc = "close"]

\* Write holds the mutex while it sends
WriteProof ==
    /\ stream.lock = "writer"
    /\ IF stream.closed THEN stream' = [stream EXCEPT !.lock = "none", !.pc = "close"]
       ELSE /\ Len(stream.ch) < BufSize
            /\ \E s \in stream.proofs :
                 stream' = [stream EXCEPT !.lock = "none", !.ch = Append(@, s),
                                          !.proofs = @ \ {s}]

\* Close, of the writer and of the goroutine that waits for the context
CloseStream ==
    /\ stream.lock = "none"
    /\ \/ /\ stream.pc = "close"
          /\ stream' = [stream EXCEPT !.pc = "done", !.closed = TRUE]
       \/ /\ stream.ctx = "done"
          /\ stream' = [stream EXCEPT !.ctx = "closed", !.closed = TRUE]

\* the caller cancels; it need not read to the end
CancelStream ==
    /\ stream.ctx = "live"
    /\ stream' = [stream EXCEPT !.ctx = "done"]

\* Read
ReadProof ==
    /\ ~stream.eof
    /\ \/ /\ stream.ch # <<>>
          /\ stream' = [stream EXCEPT !.read = @ \cup {Head(stream.ch)}, !.ch = Tail(@)]
       \/ /\ stream.ch = <<>> /\ stream.closed
          /\ stream' = [stream EXCEPT !.eof = TRUE]

StreamNext ==
    \/ \E s \in ProofSpaces : Answer(s) \/ Refuse(s)
    \/ AllGathered \/ WriterLocks \/ WriteProof \/ CloseStream \/ CancelStream \/ ReadProof

\* a stream that was opened for any of the spaces
StreamSpec == StreamInit(SUBSET ProofSpaces) /\ [][StreamNext]_stream

-----------------------------------------------------------------------------
(* Properties *)

\* A reader that comes to io.EOF although nobody cancelled has got the proof of every space
\* it was opened for, each through the channel after all were gathered; only a space the
\* worker pool refused is missing.
WholeStream ==
    stream.eof /\ stream.ctx = "live" =>
        stream.read = stream.items \/ stream.refused

\* Write never waits for a reader while it holds the mutex: the channel has room for every
\* proof, so that Close, and with it the end of the context, is not held up by a reader that
\* left.
WriteHasRoom ==
    stream.lock = "writer" => stream.closed \/ Len(stream.ch) < BufSize

\* A proof stream is complete at its end and never waits with its mutex.
StreamSound == WholeStream /\ WriteHasRoom
=============================================================================
