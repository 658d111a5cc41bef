------------------------------- MODULE Ledger -------------------------------
(***************************************************************************)
(* The API's questions about blocks and transactions (api/blocks.v1.go,    *)
(* blocks.v2.go, transactions.go).  A handler puts its answer together     *)
(* from several reads of a chain and a pool that move meanwhile: it takes  *)
(* the block, then the best height, then the next block's hash, then for   *)
(* every transaction its inputs, its status and its type.  One handler     *)
(* runs beside a chain that grows and is reorganised.                      *)
(*                                                                         *)
(* The chain and the pool are mass-core's: modelled from how the handlers  *)
(* use them.  Hashes are numbers; of a script it matters whether it is     *)
(* special.  What a coinbase pays and the fees are left out.               *)
(***************************************************************************)
EXTENDS Integers, Sequences, FiniteSets, SequencesExt, FiniteSetsExt

CONSTANTS
    Txs,        \* transactions that may be made, other than coinbases
    Ins,        \* [Txs -> sets of <<tx, n>>]: the outputs a transaction spends
    Special,    \* the outputs that stake or bind, <<tx, n>>
    Binding,    \* one that binds
    None,
    CoinbaseMaturity, TxMaturity,
    Width,      \* heights are numbers below 2^Width, and differences wrap
    MaxBlocks   \* bound: blocks ever made

\* the coinbase of a block has the block's number
Coinbases == 1..MaxBlocks

AllTxs == Txs \cup Coinbases

\* Heights do not wrap.  Of the coinbases only the first block's is spent: one can be spent when
\* it is mature, and a reorganisation takes fewer blocks away than that needs
ASSUME LedgerAssumption ==
    /\ Txs \cap Coinbases = {}
    /\ Ins \in [Txs -> SUBSET ((Txs \cup {1}) \X Nat)]
    /\ Special \subseteq Txs \X Nat /\ Binding \in Special
    /\ CoinbaseMaturity \in Nat /\ TxMaturity \in Nat /\ None \notin Nat
    /\ MaxBlocks \in Nat \ {0} /\ 2^Width \in Nat /\ MaxBlocks < 2^Width

VARIABLES
    chain,   \* the best chain: blocks [id, prev, txs, binds]
    pool,    \* the pool's transactions
    orphans, \* transactions that wait for an input
    made,    \* blocks made so far
    q,       \* the handler's variables
    clean    \* no reorganisation since the handler began

ledgerVars == <<chain, pool, orphans, made, q, clean>>

OnChain == UNION {chain[i].txs : i \in DOMAIN chain}

HeightOf(t) == CHOOSE i \in DOMAIN chain : t \in chain[i].txs

IsCoinBaseTx(t) == t \in Coinbases

Minus(a, b) == (a - b) % 2^Width

-----------------------------------------------------------------------------
(* The chain and the pool *)

Idle == [pc |-> "idle"]

LedgerInit ==
    /\ chain = << [id |-> 1, prev |-> 0, txs |-> {1}, binds |-> FALSE] >>
    /\ pool = {} /\ orphans = {} /\ made = 1
    /\ q = Idle /\ clean = TRUE

Known(t, P) == \A o \in Ins[t] : o[1] \in OnChain \cup P

\* the pool takes what it can of S together with what waits
Admit(S) ==
    LET all == S \cup orphans \cup pool
        good == CHOOSE P \in SUBSET all :
                    /\ \A t \in P : Known(t, P)
                    /\ \A R \in SUBSET all : (\A t \in R : Known(t, R)) => R \subseteq P
    IN  pool' = good /\ orphans' = all \ good

Arrive(t) ==
    /\ t \notin OnChain \cup pool \cup orphans
    /\ Admit({t})
    /\ UNCHANGED <<chain, made, q, clean>>

Block(prev, S, binds) ==
    [id |-> made + 1, prev |-> prev, txs |-> S \cup {made + 1}, binds |-> binds]

\* the best chain gets one block more, of transactions of the pool
Extend(S, binds) ==
    /\ made < MaxBlocks
    /\ \A t \in S : Known(t, S)
    /\ binds => Binding[1] \in OnChain
    /\ chain' = Append(chain, Block(chain[Len(chain)].id, S, binds))
    /\ pool' = pool \ S
    /\ made' = made + 1
    /\ UNCHANGED <<orphans, q, clean>>

\* the last n blocks give way to one other block of the branch below them; their
\* transactions but the coinbases go back to the pool
Reorganise(n) ==
    /\ made < MaxBlocks /\ n < Len(chain)
    /\ chain' = Append(SubSeq(chain, 1, Len(chain) - n),
                       Block(chain[Len(chain) - n].id, {}, FALSE))
    /\ pool' = pool \cup UNION {chain[i].txs \cap Txs : i \in (Len(chain) - n + 1)..Len(chain)}
    /\ made' = made + 1
    /\ clean' = FALSE
    /\ UNCHANGED <<orphans, q>>

-----------------------------------------------------------------------------
(* The handlers *)

\* GetBlock, GetBlockByHeight, GetBlockV2, GetBlockVerbose1V2, GetBlockHeader(V2),
\* GetCoinbase: getBlockByID or the hash or height as it is
Get(kind, h) ==
    /\ q.pc = "idle" /\ h \in DOMAIN chain
    /\ q' = [pc |-> "best", kind |-> kind, blk |-> chain[h], idx |-> h, max |-> 0,
             next |-> None, todo |-> {}, tx |-> None, raw |-> {}, at |-> 0, err |-> FALSE]
    /\ clean' = TRUE
    /\ UNCHANGED <<chain, pool, orphans, made>>

Goto(pc) == q' = [q EXCEPT !.pc = pc] /\ UNCHANGED <<chain, pool, orphans, made, clean>>

Fail == q' = [q EXCEPT !.pc = "done", !.err = TRUE] /\ UNCHANGED <<chain, pool, orphans, made, clean>>

BestBlockHeight ==
    /\ q.pc = "best"
    /\ q' = [q EXCEPT !.max = Len(chain),
                      !.pc = IF q.kind = "coinbase" THEN "coinbaseIn" ELSE "next"]
    /\ UNCHANGED <<chain, pool, orphans, made, clean>>

\* mutant: the hash above is asked for at the tip too
NextHashAlways ==
    /\ q.pc = "next"
    /\ IF q.idx + 1 > Len(chain) THEN Fail
       ELSE /\ q' = [q EXCEPT !.next = chain[q.idx + 1].id, !.todo = q.blk.txs,
                              !.pc = IF q.kind = "verbose" THEN "tx" ELSE "done"]
            /\ UNCHANGED <<chain, pool, orphans, made, clean>>

\* marshalGetBlockResponse, ...V2Response, ...HeaderResponse: the hash above, by height
NextHash ==
    /\ q.pc = "next"
    /\ IF q.idx < q.max /\ q.idx + 1 > Len(chain) THEN Fail
       ELSE /\ q' = [q EXCEPT !.next = IF q.idx < q.max THEN chain[q.idx + 1].id ELSE None,
                              !.todo = q.blk.txs,
                              !.pc = IF q.kind = "verbose" THEN "tx" ELSE "done"]
            /\ UNCHANGED <<chain, pool, orphans, made, clean>>

Confirmations == Minus(q.max + 1, q.idx)

\* createTxRawResult begins: the outputs come with the transaction
PickTx(t) ==
    /\ q.pc = "tx" /\ t \in q.todo
    /\ q' = [q EXCEPT !.pc = "vin", !.tx = t, !.todo = @ \ {t}]
    /\ UNCHANGED <<chain, pool, orphans, made, clean>>

TxsDone == q.pc = "tx" /\ q.todo = {} /\ Goto("done")

InputsOf(t) == IF IsCoinBaseTx(t) THEN {} ELSE Ins[t]

\* createVinList, getTxInAddr: the pool first, then the database
CreateVinList ==
    /\ q.pc = "vin"
    /\ IF \A o \in InputsOf(q.tx) : o[1] \in pool \cup OnChain THEN Goto("status") ELSE Fail

\* getTxStatus: the database
TxInDB ==
    /\ q.pc = "status"
    /\ IF q.tx \in OnChain
       THEN q' = [q EXCEPT !.pc = "height", !.at = HeightOf(q.tx)]
       ELSE q' = [q EXCEPT !.pc = "type",
                           !.raw = @ \cup {[tx |-> q.tx, status |-> IF q.tx \in pool THEN 2 ELSE -1]}]
    /\ UNCHANGED <<chain, pool, orphans, made, clean>>

Status(confirmations, maturity) == IF confirmations >= maturity THEN 4 ELSE 3

Maturity(t) == IF IsCoinBaseTx(t) THEN CoinbaseMaturity ELSE TxMaturity

\* getTxStatus: the best height of now against the height found
TxStatus ==
    /\ q.pc = "height"
    /\ LET status == Status(Minus(1 + Len(chain), q.at), Maturity(q.tx))
       IN  q' = [q EXCEPT !.pc = "type", !.raw = @ \cup {[tx |-> q.tx, status |-> status]}]
    /\ UNCHANGED <<chain, pool, orphans, made, clean>>

\* getTxType: that it is a coinbase, or a special output of its own, decides
KnownByItself(t) == IsCoinBaseTx(t) \/ \E o \in Special : o[1] = t

\* getTxType: else the outputs it spends are fetched in turn, until one of them is special
GetTxType ==
    /\ q.pc = "type"
    /\ \/ /\ \/ KnownByItself(q.tx)
             \/ \A o \in InputsOf(q.tx) : o[1] \in OnChain
             \/ \E o \in InputsOf(q.tx) \cap Special : o[1] \in OnChain
          /\ Goto("tx")
       \/ /\ ~KnownByItself(q.tx) /\ \E o \in InputsOf(q.tx) : o[1] \notin OnChain
          /\ Fail

\* showCoinbaseInputDetails: what the binding inputs are worth
ShowCoinbaseInput ==
    /\ q.pc = "coinbaseIn"
    /\ IF q.blk.binds /\ Binding[1] \notin OnChain THEN Fail ELSE Goto("coinbaseOut")

\* showCoinbaseOutputDetails: the previous block, for its binding state; the first block has none
ShowCoinbaseOutput ==
    /\ q.pc = "coinbaseOut"
    /\ IF \E i \in DOMAIN chain : chain[i].id = q.blk.prev THEN Goto("done") ELSE Fail

\* GetCoinbase: the best height less the block's
CoinbaseStatus == Status(Minus(q.max, q.idx), CoinbaseMaturity)

\* marshalGetTxPoolResponse: the lists in the order they are read
PoolOrder == <<"txs", "orphans">>

PoolList(name) == IF name = "txs" THEN pool ELSE orphans

PoolTxs ==
    /\ q.pc = "idle"
    /\ q' = [[pc |-> "orphans", txs |-> {}, orphans |-> {}] EXCEPT ![PoolOrder[1]] = PoolList(PoolOrder[1])]
    /\ clean' = TRUE
    /\ UNCHANGED <<chain, pool, orphans, made>>

PoolOrphans ==
    /\ q.pc = "orphans"
    /\ q' = [q EXCEPT !.pc = "pooled", ![PoolOrder[2]] = PoolList(PoolOrder[2])]
    /\ UNCHANGED <<chain, pool, orphans, made, clean>>

Return ==
    /\ q.pc \in {"done", "pooled"}
    /\ q' = Idle
    /\ UNCHANGED <<chain, pool, orphans, made, clean>>

Kinds == {"plain", "verbose", "coinbase"}

LedgerNext ==
    \/ \E t \in Txs : Arrive(t)
    \/ \E S \in SUBSET pool, binds \in BOOLEAN : Extend(S, binds)
    \/ \E n \in 1..2 : Reorganise(n)
    \/ \E kind \in Kinds, h \in 1..MaxBlocks : Get(kind, h)
    \/ BestBlockHeight
    \/ NextHash
    \/ \E t \in AllTxs : q.pc = "tx" /\ PickTx(t)
    \/ TxsDone
    \/ CreateVinList
    \/ TxInDB
    \/ TxStatus
    \/ GetTxType
    \/ ShowCoinbaseInput
    \/ ShowCoinbaseOutput
    \/ PoolTxs
    \/ PoolOrphans
    \/ Return

LedgerSpec == LedgerInit /\ [][LedgerNext]_ledgerVars

-----------------------------------------------------------------------------
Done == q.pc = "done"

\* While the chain only grows, a block's answer is whole: it is no error, but for the coinbase of
\* the first block, which GetCoinbase never tells; the hash it calls next is that of the block's
\* child, there is one exactly when the block has more than one confirmation, and every
\* transaction of it is in the answer, confirming or succeeded.
WholeAnswer ==
    Done /\ clean =>
        /\ q.err <=> q.kind = "coinbase" /\ q.idx = 1
        /\ q.kind # "coinbase" =>
             /\ q.next # None <=> Confirmations > 1
             /\ q.next # None => \E i \in DOMAIN chain : chain[i].id = q.next /\ chain[i].prev = q.blk.id
        /\ q.kind = "verbose" =>
             /\ {r.tx : r \in q.raw} = q.blk.txs
             /\ \A r \in q.raw : r.status \in {3, 4}

\* A transaction of a verbose answer is called succeeded no later than the confirmations the
\* same answer gives say so, and not before the chain has that many blocks on it: the status is
\* read after the confirmations, on a chain that only grows, and a coinbase takes longer.
\* GetCoinbase, which counts one less, does not say so before a verbose answer would.
StatusInTime ==
    Done /\ clean /\ ~q.err =>
        LET blocks == Len(chain) - q.idx + 1
        IN  /\ q.kind = "verbose" =>
                  \A r \in q.raw : /\ Confirmations >= Maturity(r.tx) => r.status = 4
                                   /\ r.status = 4 => blocks >= Maturity(r.tx)
            /\ q.kind = "coinbase" /\ CoinbaseStatus = 4 => blocks > CoinbaseMaturity

\* No transaction is in both lists of GetTxPool, although they are read one after the
\* other: transactions leave the orphans for the pool, and not the other way.
PoolOnce == q.pc = "pooled" => q.txs \cap q.orphans = {}

\* Answers about blocks and the pool, put together from several reads of a ledger that moves in
\* between, do not contradict themselves.
LedgerAnswers == WholeAnswer /\ StatusInTime /\ PoolOnce
=============================================================================
