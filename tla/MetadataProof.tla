---------------------------- MODULE MetadataProof ----------------------------
(***************************************************************************)
(* The proof of the type information a signer needs to read one payload    *)
(* (packages/merkleized-metadata): the types that are reachable from an    *)
(* extrinsic become the leaves of a Merkle tree, the payload is decoded    *)
(* along their references, and the leaves that were met are proved.        *)
(*                                                                         *)
(* A payload is first written, by the definitions of the registry alone,   *)
(* and what it holds is noted; it may then be altered.  It is a sequence   *)
(* of tokens: a number, the length of a sequence, the index of a variant.  *)
(***************************************************************************)
EXTENDS MerkleTree

CONSTANTS Types,     \* the ids of the portable registry
          Def,       \* their definitions
          Extrinsic, \* the types of an extrinsic that are accessible
          Payload,   \* those of a payload: the call and the signed extensions
          Lengths,   \* how long a sequence may be
          Tokens,    \* what an altered token may be
          MaxTokens, \* bound: the tokens of a payload
          MaxPending \* bound: the values that wait to be written

ASSUME TypesAssumption == Types \subseteq Nat /\ ToSet(Payload) \subseteq Extrinsic

VARIABLES reading,   \* the progress: "start", "reading", "failed" or "proved"
          toDecode,  \* state.toDecode: the payload, or what is left of it
          todo,      \* the references still to be decoded
          collected, \* state.collectedIndices
          proof,     \* the result of generateProof()
          pending,   \* the types of the values still to be written
          held,      \* history: the types, with the variant, that were written
          genuine    \* history: the payload was not altered

decoderVars == <<reading, todo, collected, proof>>

writerVars == <<pending, held, genuine>>

proofVars == <<decoderVars, toDecode, writerVars>>

----------------------------------------------------------------------------
(***************************************************************************)
(* The type information (src/transform).                                   *)
(***************************************************************************)

\* The order and the store of a bit sequence are not looked at.
Fields(def) == IF def.kind = "enum"
               THEN FlattenSeq([i \in DOMAIN def.variants |-> def.variants[i].fields])
               ELSE IF def.kind = "bits" THEN <<>> ELSE def.fields

\* An empty struct, tuple or enum, a primitive and a compact type are not stored.
Stored(def) ==
    \/ def.kind \in {"sequence", "array", "bits"}
    \/ def.kind \in {"struct", "tuple"} /\ def.fields # <<>>
    \/ def.kind = "enum" /\ def.variants # <<>>

\* collectTypesFromId(), as deep as there are types.
Collected[depth \in Nat] ==
    LET roots == {t \in Extrinsic : Stored(Def[t])}
    IN  IF depth = 0 THEN roots
        ELSE roots \cup {t \in UNION {ToSet(Fields(Def[u])) : u \in Collected[depth - 1]} :
                            Stored(Def[t])}

\* getAccessibleTypes(): the ids of the types that are stored, in order.
AccessibleTypes == Ascending(Collected[Cardinality(Types)], LAMBDA i, j : i < j)

\* getPrimitiveType(): through wrappers of one field.
IsPrimitive[t \in Types] ==
    \/ Def[t].kind = "primitive"
    \/ /\ Def[t].kind \in {"struct", "tuple"}
       /\ Len(Def[t].fields) = 1
       /\ IsPrimitive[Def[t].fields[1]]

\* generateTypeRef() and getCompactType().
TypeRef(t) ==
    IF Def[t].kind = "primitive" THEN [type |-> "primitive"]
    ELSE IF Def[t].kind = "compact" /\ IsPrimitive[Def[t].fields[1]] THEN [type |-> "compact"]
    ELSE IF t \in ToSet(AccessibleTypes)
    THEN [type |-> "perId",
          value |-> (CHOOSE i \in DOMAIN AccessibleTypes : AccessibleTypes[i] = t) - 1]
    ELSE [type |-> "void"]

Refs(types) == [i \in DOMAIN types |-> TypeRef(types[i])]

\* generateTypeInfo(): an entry for every type, for an enumeration one for
\* every variant, in the order of the type ids and the variants.
TypeInfo ==
    LET Entries(k) ==
            LET def == Def[AccessibleTypes[k]]
            IN  IF def.kind = "enum"
                THEN [i \in DOMAIN def.variants |->
                        [typeId |-> k - 1, kind |-> "enum", len |-> 0,
                         index |-> def.variants[i].index, refs |-> Refs(def.variants[i].fields)]]
                ELSE <<[typeId |-> k - 1, kind |-> def.kind, len |-> def.len,
                        index |-> 0, refs |-> Refs(Fields(def))]>>
        Before(a, b) == a.typeId < b.typeId \/ (a.typeId = b.typeId /\ a.index < b.index)
    IN  Ascending(ToSet(FlattenSeq([k \in DOMAIN AccessibleTypes |-> Entries(k)])), Before)

\* The leaves, by their places.
Leaves == [i \in DOMAIN TypeInfo |-> <<i - 1>>]

----------------------------------------------------------------------------
(***************************************************************************)
(* The payload, as a wallet encodes it.                                    *)
(***************************************************************************)
Repeat(refs, times) == FlattenSeq([i \in 1..times |-> refs])

\* The first value that waits is written: these tokens of its own, then these
\* values.
Write(tokens, values) ==
    /\ toDecode' = toDecode \o tokens
    /\ pending' = values \o Tail(pending)
    /\ Len(toDecode') <= MaxTokens /\ Len(pending') <= MaxPending
    /\ UNCHANGED <<decoderVars, genuine>>

Waiting(kinds) ==
    reading = "start" /\ pending # <<>> /\ Def[Head(pending)].kind \in kinds

WriteNumber ==
    /\ Waiting({"primitive", "compact"})
    /\ Write(<<0>>, <<>>)
    /\ UNCHANGED held

WriteFields ==
    /\ Waiting({"struct", "tuple"})
    /\ LET fields == Def[Head(pending)].fields
       IN  /\ Write(<<>>, fields)
           /\ held' = held \cup (IF fields = <<>> THEN {} ELSE {<<Head(pending), 0>>})

WriteVariant ==
    /\ Waiting({"enum"})
    /\ \E variant \in ToSet(Def[Head(pending)].variants) :
          /\ Write(<<variant.index>>, variant.fields)
          /\ held' = held \cup {<<Head(pending), variant.index>>}

WriteSequence(length) ==
    /\ Waiting({"sequence"})
    /\ Write(<<length>>, Repeat(Def[Head(pending)].fields, length))
    /\ held' = held \cup {<<Head(pending), 0>>}

WriteArray ==
    /\ Waiting({"array"})
    /\ Write(<<>>, Repeat(Def[Head(pending)].fields, Def[Head(pending)].len))
    /\ held' = held \cup {<<Head(pending), 0>>}

\* A bit sequence is its length and as many stores.
WriteBits(length) ==
    /\ Waiting({"bits"})
    /\ Write(<<length>> \o Repeat(<<0>>, length), <<>>)
    /\ held' = held \cup {<<Head(pending), 0>>}

\* The payload ends early, goes on, or holds another token.
Alter ==
    /\ reading = "start" /\ pending = <<>> /\ genuine
    /\ genuine' = FALSE
    /\ \/ \E i \in DOMAIN toDecode : toDecode' = SubSeq(toDecode, 1, i - 1)
       \/ \E token \in Tokens : toDecode' = Append(toDecode, token)
       \/ \E i \in DOMAIN toDecode, token \in Tokens :
             toDecode' = [toDecode EXCEPT ![i] = token]
    /\ UNCHANGED <<decoderVars, pending, held>>

----------------------------------------------------------------------------
(***************************************************************************)
(* The decoder.                                                            *)
(***************************************************************************)

\* typeIdMap.get()
Indexes(typeId) == {i \in 0..(Len(TypeInfo) - 1) : TypeInfo[i + 1].typeId = typeId}

Entry(i) == TypeInfo[i + 1]

First(typeId) == CHOOSE i \in Indexes(typeId) : \A j \in Indexes(typeId) : i <= j

CollectFirst(typeId) == {First(typeId)} \* mutant: of a type with variants too

\* The index a type is collected under before its value is looked at.
Collect(typeId) == IF Cardinality(Indexes(typeId)) = 1 THEN Indexes(typeId) ELSE {}

Fail ==
    /\ reading' = "failed"
    /\ UNCHANGED <<todo, collected, proof, toDecode>>

\* decodeAndCollectLeaves() begins with the references of the payload.
StartReading ==
    /\ reading = "start" /\ pending = <<>>
    /\ reading' = "reading"
    /\ todo' = Refs(Payload)
    /\ UNCHANGED <<collected, proof, toDecode, writerVars>>

\* processTypeRef(): a value that is no reference; void takes nothing.
DecodeValue ==
    /\ reading = "reading" /\ todo # <<>> /\ Head(todo).type # "perId"
    /\ todo' = Tail(todo)
    /\ IF Head(todo).type = "void"
       THEN UNCHANGED toDecode
       ELSE toDecode # <<>> /\ toDecode' = Tail(toDecode)
    /\ UNCHANGED <<reading, collected, proof, writerVars>>

\* The reference that is next has type information.
Found == /\ reading = "reading" /\ todo # <<>> /\ Head(todo).type = "perId"
         /\ Indexes(Head(todo).value) # {}

\* decode(): the payload ends within a value.
OutOfBytes ==
    /\ reading = "reading" /\ todo # <<>> /\ toDecode = <<>>
    /\ \/ Head(todo).type \notin {"void", "perId"}
       \/ Found /\ Entry(First(Head(todo).value)).kind \in {"sequence", "enum"}
    /\ Fail
    /\ UNCHANGED writerVars

\* processPerIdType() of a type with one entry.  A bit sequence takes nothing
\* from the payload.
DecodeType ==
    /\ Found
    /\ LET typeId == Head(todo).value
           first  == Entry(First(typeId))
       IN  /\ first.kind # "enum"
           /\ collected' = collected \cup Collect(typeId)
           /\ \/ /\ first.kind = "sequence" /\ toDecode # <<>>
                 /\ todo' = Repeat(first.refs, Head(toDecode)) \o Tail(todo)
                 /\ toDecode' = Tail(toDecode)
              \/ /\ first.kind # "sequence"
                 /\ todo' = Repeat(first.refs, IF first.kind = "array" THEN first.len ELSE 1)
                            \o Tail(todo)
                 /\ UNCHANGED toDecode
    /\ UNCHANGED <<reading, proof, writerVars>>

\* processPerIdType() of an enumeration.
DecodeEnumeration ==
    /\ Found
    /\ LET typeId   == Head(todo).value
           selected == {i \in Indexes(typeId) : Entry(i).index = Head(toDecode)}
       IN  /\ Entry(First(typeId)).kind = "enum"
           /\ toDecode # <<>>
           /\ \/ selected = {} /\ Fail
              \/ \E i \in selected :
                    /\ todo' = Entry(i).refs \o Tail(todo)
                    /\ toDecode' = Tail(toDecode)
                    /\ collected' = collected \cup Collect(typeId) \cup {i}
                    /\ UNCHANGED <<reading, proof>>
    /\ UNCHANGED writerVars

\* The references are read; bytes that are left are too many.
FinishReading ==
    /\ reading = "reading" /\ todo = <<>>
    /\ \/ toDecode # <<>> /\ Fail
       \/ /\ toDecode = <<>>
          /\ reading' = "proved"
          /\ proof' = GenerateProof(Leaves, collected)
          /\ UNCHANGED <<todo, collected, toDecode>>
    /\ UNCHANGED writerVars

----------------------------------------------------------------------------

NoProof == [leaves |-> <<>>, leafIndices |-> <<>>, proofs |-> <<>>]

ProofInit ==
    /\ reading = "start"
    /\ toDecode = <<>>
    /\ todo = <<>>
    /\ collected = {}
    /\ proof = NoProof
    /\ pending = Payload
    /\ held = {}
    /\ genuine = TRUE

ProofNext ==
    \/ WriteNumber
    \/ WriteFields
    \/ WriteVariant
    \/ WriteArray
    \/ \E length \in Lengths : WriteSequence(length) \/ WriteBits(length)
    \/ Alter
    \/ StartReading
    \/ DecodeValue
    \/ OutOfBytes
    \/ DecodeType
    \/ DecodeEnumeration
    \/ FinishReading

----------------------------------------------------------------------------
(***************************************************************************)
(* Properties.                                                             *)
(***************************************************************************)

\* What generateProof() returns leads a verifier, who knows nothing but the
\* proof, to the root of the tree that digest() signs, and uses all of it.
ProofVerifies == reading = "proved" => Proves(proof, Root(Leaves))

\* The type ids of the registry and the variants whose information is proved.
Proved == {<<AccessibleTypes[Entry(leaf[1]).typeId + 1], Entry(leaf[1]).index>> :
              leaf \in ToSet(proof.leaves)}

\* The proof of a payload that was not altered carries the type information of
\* every type and variant that was written into it, so that a signer can read
\* it, and of no other; and there is one.
Sufficient ==
    /\ reading = "proved" => Proved = held
    /\ reading # "failed"

\* Every reference leads to type information, so that "Type ID not found" is
\* never thrown on the way.
NoDanglingReference ==
    \A i \in DOMAIN todo : todo[i].type = "perId" => Indexes(todo[i].value) # {}

WithBits == \E h \in held : Def[h[1]].kind = "bits"

\* A payload with a bit sequence is the exception: what follows is misread.
ProofSuffices ==
    /\ NoDanglingReference
    /\ genuine /\ ~WithBits => Sufficient

\* What proofForExtrinsicPayload() is there for, which a bit sequence defeats.
EveryPayloadReadable == genuine => Sufficient
=============================================================================
