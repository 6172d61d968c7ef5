------------------------------ MODULE MCSequential ------------------------------
(***************************************************************************)
(* The parts of a client that compute without awaiting anything: the LRU   *)
(* cache, the era of a transaction and the proof of its metadata.  They    *)
(* share no state: a behaviour is one of one of them.                      *)
(*                                                                         *)
(* The cache has one key more than it can hold, and lists long enough to   *)
(* have a node that is neither their head nor their tail.  No operation    *)
(* tells one key from another.                                             *)
(***************************************************************************)
EXTENDS LRUCache, MetadataProof, Mortality

KeySymmetry == Permutations(Keys)

Struct(fields) == [kind |-> "struct", fields |-> fields, len |-> 0]
Of(kind, fields) == [kind |-> kind, fields |-> fields, len |-> 0]
Enum(variants) == [kind |-> "enum", variants |-> variants]
Variant(index, fields) == [index |-> index, fields |-> fields]

MCTypes == 1..14

MCDef ==
    << Of("primitive", <<>>),                  \*  1 u8
       Struct(<<1>>),                          \*  2 a wrapper
       Of("compact", <<2>>),                   \*  3 Compact<wrapper>
       Of("struct", <<>>),                     \*  4 empty
       Enum(<< Variant(0, <<3>>),              \*  5 the call
               Variant(2, <<6>>),
               Variant(1, <<4, 8>>),
               Variant(3, <<13>>) >>),
       Of("sequence", <<5>>),                  \*  6 a batch of calls
       Struct(<<3, 4, 10>>),                   \*  7 an extension
       [kind |-> "array", fields |-> <<9>>, len |-> 2],
       Enum(<<Variant(3, <<1>>)>>),            \*  9 one variant
       Of("bits", <<1, 4>>),                   \* 10
       Enum(<<Variant(0, <<>>), Variant(1, <<7>>)>>),
       Enum(<<Variant(0, <<1>>), Variant(1, <<>>)>>), \* 12 the address
       Enum(<<>>),                             \* 13 no value
       Of("tuple", <<2, 1>>) >>                \* 14 another extension

MCPayload == <<5, 11, 4, 14>>

MCChains ==
    LET chain == [blockHashCount |-> 0, expectedBlockTime |-> 0,
                  slotDuration |-> 0, minimumPeriod |-> 0]
    IN  { chain,
          [chain EXCEPT !.blockHashCount = 4096, !.expectedBlockTime = 2000],
          [chain EXCEPT !.slotDuration = 720000],
          [chain EXCEPT !.minimumPeriod = 90000] }

CacheUntouched == cache.refs = {} /\ outlived = {} /\ answer = Void

NothingWritten == reading = "start" /\ toDecode = <<>> /\ held = {}

NothingSigned == signed = NotSigned /\ best = 0

SequentialInit == LruInit /\ ProofInit /\ MortalityInit

SequentialNext ==
    \/ NothingSigned /\ NothingWritten /\ LruNext /\ UNCHANGED <<proofVars, mortalityVars>>
    \/ CacheUntouched /\ NothingSigned /\ ProofNext /\ UNCHANGED <<lruVars, mortalityVars>>
    \/ CacheUntouched /\ NothingWritten /\ MortalityNext /\ UNCHANGED <<lruVars, proofVars>>

SequentialSpec ==
    SequentialInit /\ [][SequentialNext]_<<lruVars, proofVars, mortalityVars>>
=============================================================================
