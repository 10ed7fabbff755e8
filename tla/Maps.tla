--------------------------------- MODULE Maps ---------------------------------
(***************************************************************************)
(* The queries on maps and multimaps (maps.cpp, multis.cpp), operators on  *)
(* the text at their destination like those of module Lists.               *)
(***************************************************************************)
EXTENDS Strings

hset(text, hash, x) ==
  IF Empty \in {hash, x} THEN Refuse(text, "MISS_ARGS")
  ELSE Done(PutPair(CreateMap(text), <<hash, x>>), PROCESS_OK)

(* Mutant: the hash is written whether or not it exists.                   *)
hsetnxAlways(text, hash, x) ==
  Done(PutPair(CreateMap(text), <<hash, x>>), PROCESS_OK)

hsetnx(text, hash, x) ==
  LET pairs == CreateMap(text)
  IN  CASE Exists(pairs, hash)                   -> Refuse(text, "ENTRY_EXISTS")
        [] ~Exists(pairs, hash) /\ hash = Empty  -> Refuse(text, "UNABLE_WRITE")
        [] OTHER -> Done(PutPair(pairs, <<hash, x>>), PROCESS_OK)

hexists(text, hash) ==
  IF hash = Empty THEN Refuse(text, "MISS_ARGS")
  ELSE Done(text, IF Exists(CreateMap(text), hash) THEN 1 ELSE 0)

hget(text, hash) ==
  CASE hash = Empty -> Refuse(text, "MISS_ARGS")
    [] hash # Empty /\ Exists(CreateMap(text), hash)
         -> Done(text, GetPair(CreateMap(text), hash))
    [] OTHER -> Refuse(text, "NOT_FOUND")

(* The length of what hget answers.                                        *)
hstrlen(text, hash) ==
  LET got == hget(text, hash)
  IN  IF got.access # "OK" THEN got ELSE Done(text, Length(got.reply))

(* A hash whose value is empty is found and is not removed.                *)
hdel(text, hash) ==
  LET pairs == CreateMap(text)
  IN  CASE ~Exists(pairs, hash)             -> Refuse(text, "NOT_FOUND")
        [] Exists(pairs, hash) /\ GetPair(pairs, hash) = Empty
             -> KeepPairs(pairs, PROCESS_OK)
        [] OTHER -> KeepPairs(RemovePair(pairs, hash), PROCESS_OK)

hlist(text, offset, limit) ==
  Done(text, PageCleared(Hashes(CreateMap(text)), offset, limit))

(* hlist_query with QUERY_FLAGS_COUNT.                                     *)
hcount(text) == Done(text, Len(CreateMap(text)))

hvals(text, offset, limit) ==
  Done(text, PageCleared(ValuesOf(CreateMap(text)), offset, limit))

hgetall(text, offset, limit) ==
  Done(text, PageCleared(CreateMap(text), offset, limit))

----------------------------------------------------------------------------

(* Without a hash nothing is added: an absent multimap stays absent and    *)
(* the answer is OK.                                                       *)
mset(text, hash, x) ==
  IF hash = Empty THEN Done(text, PROCESS_OK)
  ELSE Done(AddPair(CreateMultiMap(text), <<hash, x>>), PROCESS_OK)

msetnx(text, hash, x) ==
  CASE hash = Empty -> Done(text, PROCESS_OK)
    [] hash # Empty /\ Exists(CreateMultiMap(text), hash)
         -> Refuse(text, "ENTRY_EXISTS")
    [] OTHER -> Done(AddPair(CreateMultiMap(text), <<hash, x>>), PROCESS_OK)

(* A multimap of one pair is deleted whatever the hash.                    *)
mdel(text, hash) == KeepPairs(RemovePair(CreateMultiMap(text), hash), PROCESS_OK)

mget(text, offset, limit) ==
  Loaded(text, Done(text, PageCleared(Hashes(CreateMultiMap(text)),
                                      offset, limit)))

(* mget_query with QUERY_FLAGS_COUNT.                                      *)
mcount(text) == Loaded(text, Done(text, Len(CreateMultiMap(text))))

mrepeats(text, hash) ==
  Done(text, Repeats(Hashes(CreateMultiMap(text)), hash))

mvals(text, offset, limit) ==
  Done(text, PageCleared(ValuesOf(CreateMultiMap(text)), offset, limit))

mgetall(text, offset, limit) ==
  Done(text, PageCleared(CreateMultiMap(text), offset, limit))

miter(text, hash, offset, limit) ==
  Done(text, PageCleared(GetVals(CreateMultiMap(text), hash), offset, limit))

=============================================================================
