---------------------------- MODULE PromptCache ----------------------------
(***************************************************************************)
(* What a slot claims to hold and what its cells hold.                     *)
(*                                                                         *)
(* A slot keeps the tokens of its prompt; the K/V data for them is in its  *)
(* sequence of the context (and of the draft context).  Whole prompts move *)
(* between slots and a cache in host memory, server_prompt_cache: when a   *)
(* completion is given a slot whose prompt it would throw away, that       *)
(* prompt is saved and a better one is looked for.  Slots can be saved to  *)
(* a file, restored and erased, and adapters changed.                      *)
(*                                                                         *)
(* One thread handles the tasks, one after the other: a task is one step.  *)
(* The decoding is here only as far as it changes prompts and cells;       *)
(* SlotDecode has it.                                                      *)
(***************************************************************************)
EXTENDS Integers, Sequences, FiniteSets, SequencesExt, FiniteSetsExt

CONSTANTS
  NSlots,       \* n_parallel
  Tokens,       \* the vocabulary
  Prompts,      \* bound: the prompts of requests, none empty
  Sampled,      \* bound: the tokens that are generated
  Adapters,     \* the LoRA adapters
  Asked,        \* bound: the adapters that requests ask for; "default": for none
  Named,        \* bound: the slots that they may ask for
  HasDraft,     \* there is a draft context
  Unified,      \* kv_unified
  SaveIdle,     \* cache_idle_slots
  Similarity,   \* slot_prompt_similarity, in percent; 0 turns it off
  LimitSize,    \* limit_size at the start; a token takes one unit; 0: none
  LimitTokens,  \* limit_tokens; 0: none
  Filed,        \* bound: the prompts that are saved to the file
  MaxLen,       \* bound: no prompt grows beyond it
  Refusals,     \* which context may refuse the state of an entry: "main", "draft"
  Aborts        \* an exception may come between batching and decoding

ASSUME SlotAssumption  == NSlots \in Nat \ {0} /\ Similarity \in Nat
ASSUME LimitAssumption == LimitSize \in Nat /\ LimitTokens \in Nat /\ MaxLen \in Nat
ASSUME InputAssumption == /\ Prompts \subseteq Seq(Tokens) \ {<<>>}
                          /\ \A p \in Prompts : Len(p) <= MaxLen
                          /\ Sampled \subseteq Tokens /\ Filed \subseteq Seq(Tokens)
                          /\ Refusals \subseteq {"main", "draft"}
                          /\ {HasDraft, Unified, SaveIdle, Aborts} \subseteq BOOLEAN
                          /\ Adapters # {} /\ {"default", "none"} \cap Adapters = {}
                          /\ Asked \subseteq Adapters \cup {"default"}
                          /\ Named \subseteq 0 .. NSlots - 1

VARIABLES
  prompt,   \* prompt[s]: slot.prompt.tokens
  main,     \* main[s]: what the cells of the slot hold: tokens, each with its adapter
  drft,     \* drft[s]: the same for the draft context
  lora,     \* slot.lora, "none" before the first request
  state,    \* slot.state; "batched": its prompt is in the batch that is decoded now
  request,  \* the tokens of slot.task
  used,     \* the ranks of the slots, 0 for the least recently used (t_last_used)
  cache,    \* server_prompt_cache::states
  limit,    \* server_prompt_cache::limit_size
  default,  \* params_base.lora_adapters
  file      \* a file that slots are saved to

vars    == <<prompt, main, drft, lora, state, request, used, cache, limit, default, file>>
held    == <<prompt, main, drft>>
running == <<state, request, used, lora>>
cached  == <<cache, limit>>

Slot == 0 .. NSlots - 1

Requests == [tokens : Prompts, lora : Asked, slot : Named \cup {-1}]

Idle(s) == state[s] = "idle"
AtRest  == \A s \in Slot : state[s] # "batched"

Lcp(p, q)   == Cardinality({k \in DOMAIN p \cap DOMAIN q : \A j \in 1 .. k : p[j] = q[j]})
Cut(c, n)   == SubSeq(c, 1, IF n < Len(c) THEN n ELSE Len(c))
TokensOf(c) == [k \in 1 .. Len(c) |-> c[k].tok]
Computed(c, p, l) ==
  c \o [k \in 1 .. Len(p) - Len(c) |-> [tok |-> p[Len(c) + k], lora |-> l]]

Init ==
  /\ prompt  = [s \in Slot |-> <<>>]
  /\ main    = [s \in Slot |-> <<>>]
  /\ drft    = [s \in Slot |-> <<>>]
  /\ default \in Adapters
  /\ lora    = [s \in Slot |-> "none"]
  /\ state   = [s \in Slot |-> "idle"]
  /\ request = [s \in Slot |-> <<>>]
  /\ used    = [s \in Slot |-> NSlots - 1 - s]
  /\ cache   = <<>>
  /\ limit   = LimitSize
  /\ file    = [tokens |-> <<>>, main |-> <<>>]

(***************************************************************************)
(* The cache.  Its operations, which a task calls in turn, are functions   *)
(* of all that they change: m has the prompts and contents of the slots,   *)
(* the entries of the cache and its limit.                                 *)
(***************************************************************************)
Memory == [prompt |-> prompt, main |-> main, drft |-> drft, cache |-> cache, limit |-> limit]
Becomes(m) ==
  prompt' = m.prompt /\ main' = m.main /\ drft' = m.drft /\ cache' = m.cache /\ limit' = m.limit

Total(w)       == LET sum[k \in 0 .. Len(w)] == IF k = 0 THEN 0 ELSE sum[k - 1] + w[k]
                  IN  sum[Len(w)]
Weight(e)      == Len(e.main) + Len(e.drft)
CacheSize(c)   == Total([k \in 1 .. Len(c) |-> Weight(c[k])])
CacheTokens(c) == Total([k \in 1 .. Len(c) |-> Len(c[k].tokens)])

Covered(c, p)  == \E i \in DOMAIN c : IsPrefix(p, c[i].tokens)
Without(c, p)  == LET kept[k \in 0 .. Len(c)] ==
                        IF k = 0 THEN <<>>
                        ELSE IF IsPrefix(c[k].tokens, p) THEN kept[k - 1]
                        ELSE Append(kept[k - 1], c[k])
                  IN  kept[Len(c)]
Entry(m, s)    == [tokens |-> m.prompt[s], main |-> m.main[s], drft |-> m.drft[s]]

(* the oldest entries go until the rest is one of those allowed, but the newest stays *)
Rest(c, k) == SubSeq(c, k + 1, Len(c))
DropUntil(c, allowed) ==
  IF c = <<>> THEN c
  ELSE Rest(c, Min({k \in 0 .. Len(c) - 1 : k = Len(c) - 1 \/ k \in allowed}))

FitSize(c, lim)    == DropUntil(c, {k \in 0 .. Len(c) : CacheSize(Rest(c, k)) <= lim})
FitTokens(c, most) == DropUntil(c, {k \in 0 .. Len(c) : CacheTokens(Rest(c, k)) <= most})

(* update() *)
Trim(c, lim) ==
  LET fit  == IF lim = 0 THEN c ELSE FitSize(c, lim)
      n    == CacheTokens(fit)
      most == IF lim = 0 \/ n = 0 THEN LimitTokens
              ELSE Max({LimitTokens, (lim * n) \div Max({CacheSize(fit), n})})
  IN  IF LimitTokens = 0 THEN fit ELSE FitTokens(fit, most)

Updated(m) == [m EXCEPT !.cache = Trim(m.cache, m.limit)]

(* without memory for the entry the limit is reduced, and stays reduced *)
Reduced(m) == Updated([m EXCEPT !.limit = Max({1, (2 * CacheSize(m.cache)) \div 5})])

Saves(m, s) == m.prompt[s] # <<>> /\ ~Covered(m.cache, m.prompt[s])

(* the entries that the prompt makes obsolete stay *)
SavedBeside(m, s, fits) ==
  IF ~Saves(m, s) THEN m
  ELSE IF fits THEN [m EXCEPT !.cache = Append(@, Entry(m, s))]
  ELSE Reduced(m)

(* prompt_save(): alloc() and the copy of the state into the new entry *)
Saved(m, s, fits) ==
  LET rest == [m EXCEPT !.cache = Without(@, m.prompt[s])]
  IN  IF ~Saves(m, s) THEN m
      ELSE IF fits THEN [rest EXCEPT !.cache = Append(@, Entry(m, s))]
      ELSE Reduced(rest)

(* the entry that load() takes, or 0: it must keep more of the old and of the *)
(* new prompt than every one before it, the prompt of the slot included       *)
Best(m, s, new) ==
  LET of(i)   == IF i = 0 THEN m.prompt[s] ELSE m.cache[i].tokens
      same(i) == Lcp(of(i), new)
      keepsMore(i, b) == of(b) = <<>> \/ same(i) * Len(of(b)) > same(b) * Len(of(i))
      better(i, b)    == 4 * same(i) >= Len(of(i)) /\ keepsMore(i, b) /\ same(i) > same(b)
      best[i \in 0 .. Len(m.cache)] ==
        IF i = 0 THEN 0 ELSE IF better(i, best[i - 1]) THEN i ELSE best[i - 1]
  IN  best[Len(m.cache)]

Cleared(m, s) == [m EXCEPT !.prompt[s] = <<>>, !.main[s] = <<>>, !.drft[s] = <<>>]

(* the state is not read into the context of the slot *)
LoadedTokensOnly(m, s, new, refusal) ==
  LET i == Best(m, s, new)
  IN  IF i = 0 THEN m
      ELSE IF refusal # "none" THEN Cleared(m, s)
      ELSE [m EXCEPT !.prompt[s] = m.cache[i].tokens, !.cache = RemoveAt(@, i)]

(* prompt_load(), and the clearing when it fails: the state of the best entry  *)
(* goes to the context, its tokens to the slot.  When the draft state is       *)
(* refused the data for the main context is gone from the entry, and an entry  *)
(* without data is later restored as one of size 0: nothing is read, and that  *)
(* is all of it.                                                               *)
Loaded(m, s, new, refusal) ==
  LET i == Best(m, s, new)
      e == m.cache[i]
      read(c, data) == IF data = <<>> THEN c ELSE data
  IN  IF i = 0 THEN m
      ELSE IF refusal = "main" /\ e.main # <<>> THEN Cleared(m, s)
      ELSE IF refusal = "draft" /\ e.drft # <<>>
           THEN [Cleared(m, s) EXCEPT !.cache[i].main = <<>>]
      ELSE [m EXCEPT !.prompt[s] = e.tokens,
                     !.main[s]   = read(@, e.main),
                     !.drft[s]   = read(@, e.drft),
                     !.cache     = RemoveAt(@, i)]

(***************************************************************************)
(* A completion task.                                                      *)
(***************************************************************************)
Similar(r) == {s \in Slot : /\ Similarity # 0 /\ Idle(s) /\ r.slot \in {-1, s}
                            /\ prompt[s] # <<>>
                            /\ 100 * Lcp(prompt[s], r.tokens) > Similarity * Len(r.tokens)}
MostSimilar(r) == {s \in Similar(r) : \A t \in Similar(r) :
                     Lcp(prompt[t], r.tokens) <= Lcp(prompt[s], r.tokens)}
Oldest == {s \in Slot : Idle(s) /\ \A t \in Slot : Idle(t) => used[s] <= used[t]}

(* get_available_slot(): by similarity, by its id, or the least recently used *)
Chosen(r) == IF MostSimilar(r) # {} THEN Min(MostSimilar(r))
             ELSE IF r.slot # -1    THEN r.slot
             ELSE IF Oldest # {}    THEN Min(Oldest)
             ELSE -1

(* a large part of what the slot holds would be lost *)
LosesMuch(r, s) ==
  LET kept == IF s \in MostSimilar(r) THEN Lcp(prompt[s], r.tokens) ELSE 0
  IN  IF MostSimilar(r) = {} /\ r.slot = -1 THEN TRUE
      ELSE Similarity # 0 /\ prompt[s] # <<>> /\ 2 * kept < Len(prompt[s])

(* the prompt that is replaced is not saved *)
SwappedUnsaved(r, s, full, refusal) ==
  IF LosesMuch(r, s) THEN Updated(Loaded(Memory, s, r.tokens, refusal)) ELSE Memory

(* the rest of get_available_slot(): busy or not, the slot is given the better *)
(* prompt.  full has the slots whose saving finds no memory.                   *)
Swapped(r, s, full, refusal) ==
  IF LosesMuch(r, s)
  THEN Updated(Loaded(Saved(Memory, s, s \notin full), s, r.tokens, refusal))
  ELSE Memory

(* update() is not called *)
SweptUntrimmed(m, idle, full) ==
  LET save(n, s)  == Saved(n, s, s \notin full)
      clear(n, s) == IF Unified THEN Cleared(n, s) ELSE n
      after[k \in 0 .. NSlots] ==
        IF k = 0 THEN m
        ELSE IF k - 1 \in idle THEN clear(save(after[k - 1], k - 1), k - 1) ELSE after[k - 1]
  IN  after[NSlots]

(* The idle slots are saved, one after the other, and cleared when they share *)
(* cells with those that work.                                                *)
Swept(m, idle, full) ==
  LET save(n, s)  == IF Saves(n, s) THEN Updated(Saved(n, s, s \notin full)) ELSE n
      clear(n, s) == IF Unified THEN Cleared(n, s) ELSE n
      after[k \in 0 .. NSlots] ==
        IF k = 0 THEN m
        ELSE IF k - 1 \in idle THEN clear(save(after[k - 1], k - 1), k - 1) ELSE after[k - 1]
  IN  after[NSlots]

(* A request for other adapters than those of the slot drops the prompt of   *)
(* the slot, but not its cells; one for the default adapters drops nothing.  *)
DropsPrompt(m, s, l) == IF l \notin {"default", lora[s]} THEN [m EXCEPT !.prompt[s] = <<>>] ELSE m

(* A completion.  Without a slot, or with a busy one, it is deferred and comes *)
(* again; it may also be found invalid.                                        *)
Defer(r, full, refusal) ==
  LET s == Chosen(r)
  IN  /\ AtRest
      /\ s # -1
      /\ ~Idle(s)
      /\ Becomes(Swapped(r, s, full, refusal))
      /\ UNCHANGED <<running, default, file>>

Launch(r, full, refusal, valid) ==
  LET s    == Chosen(r)
      m    == DropsPrompt(Swapped(r, s, full, refusal), s, r.lora)
      idle == {t \in Slot : Idle(t) /\ t # s}
  IN  /\ AtRest
      /\ s # -1
      /\ Idle(s)
      /\ lora' = [lora EXCEPT ![s] = IF r.lora = "default" THEN default ELSE r.lora]
      /\ IF valid
         THEN /\ state'   = [state EXCEPT ![s] = "started"]
              /\ request' = [request EXCEPT ![s] = r.tokens]
              /\ Becomes(IF SaveIdle THEN Swept(m, idle, full) ELSE m)
         ELSE /\ Becomes(m)
              /\ UNCHANGED <<state, request>>
      /\ UNCHANGED <<used, default, file>>

(***************************************************************************)
(* Working on it.                                                          *)
(***************************************************************************)
Processing == {s \in Slot : ~Idle(s)}
Batched    == {s \in Slot : state[s] = "batched"}

(* the slots S become the ones used last, in their order *)
UsedLast(S) ==
  LET before(t, s) == IF s \in S THEN t \notin S \/ t < s ELSE t \notin S /\ used[t] < used[s]
  IN  used' = [s \in Slot |-> Cardinality({t \in Slot : before(t, s)})]

(* the task is not forgotten *)
ReleasedWithTask(S) ==
  /\ state' = [s \in Slot |-> IF s \in S THEN "idle" ELSE state[s]]
  /\ UsedLast(S)
  /\ UNCHANGED <<request, lora>>

(* release() of the slots S, in their order *)
Released(S) ==
  /\ state'   = [s \in Slot |-> IF s \in S THEN "idle" ELSE state[s]]
  /\ request' = [s \in Slot |-> IF s \in S THEN <<>> ELSE request[s]]
  /\ UsedLast(S)
  /\ UNCHANGED lora

(* the cells beyond the common part stay *)
StartKeepsCells(s) ==
  /\ state[s] = "started"
  /\ prompt' = [prompt EXCEPT ![s] = request[s]]
  /\ state'  = [state EXCEPT ![s] = "batched"]
  /\ UNCHANGED <<main, drft, lora, request, used, cached, default, file>>

(* pre_decode(): what the slot holds of the prompt is kept, but for the last   *)
(* token, the rest is removed from its cells and the rest of the prompt goes   *)
(* to the batch.                                                               *)
Start(s) ==
  LET same == Lcp(prompt[s], request[s])
      past == IF same = Len(request[s]) THEN same - 1 ELSE same
  IN  /\ state[s] = "started"
      /\ main'   = [main EXCEPT ![s] = Cut(@, past)]
      /\ drft'   = [drft EXCEPT ![s] = Cut(@, past)]
      /\ prompt' = [prompt EXCEPT ![s] = request[s]]
      /\ state'  = [state EXCEPT ![s] = "batched"]
      /\ UNCHANGED <<lora, request, used, cached, default, file>>

DraftComputed(c, p, l) == IF HasDraft THEN Computed(c, p, l) ELSE <<>>

Decode ==
  /\ Batched # {}
  /\ main' = [s \in Slot |-> IF s \in Batched THEN Computed(main[s], prompt[s], lora[s]) ELSE main[s]]
  /\ drft' = [s \in Slot |-> IF s \in Batched THEN DraftComputed(drft[s], prompt[s], lora[s])
                                              ELSE drft[s]]
  /\ state' = [s \in Slot |-> IF s \in Batched THEN "generating" ELSE state[s]]
  /\ UNCHANGED <<prompt, lora, request, used, cached, default, file>>

(* the token sampled last goes to the batch and is decoded *)
Generate(s, tok) ==
  LET p == Append(prompt[s], tok)
  IN  /\ AtRest
      /\ state[s] = "generating"
      /\ Len(prompt[s]) < MaxLen                               \* bound
      /\ prompt' = [prompt EXCEPT ![s] = p]
      /\ main'   = [main EXCEPT ![s] = Computed(@, p, lora[s])]
      /\ drft'   = [drft EXCEPT ![s] = DraftComputed(@, p, lora[s])]
      /\ UNCHANGED <<running, cached, default, file>>

(* no cells are left: an idle slot is cleared and the batch tried again *)
Evict ==
  LET full == {s \in Slot : Idle(s) /\ prompt[s] # <<>>}
  IN  /\ Batched # {}
      /\ Unified
      /\ full # {}
      /\ Becomes(Cleared(Memory, Min(full)))
      /\ UNCHANGED <<running, default, file>>

(* the failed slots keep their prompts *)
DecodeFailsKeepsPrompts ==
  /\ Batched # {}
  /\ Released(Processing)
  /\ UNCHANGED <<held, cached, default, file>>

(* decode() fails for good: every slot that works is released and cleared *)
DecodeFails ==
  /\ Batched # {}
  /\ Released(Processing)
  /\ prompt' = [s \in Slot |-> IF Idle(s) THEN prompt[s] ELSE <<>>]
  /\ main'   = [s \in Slot |-> IF Idle(s) THEN main[s] ELSE <<>>]
  /\ drft'   = [s \in Slot |-> IF Idle(s) THEN drft[s] ELSE <<>>]
  /\ UNCHANGED <<cached, default, file>>

(* abort_all_slots(): an exception; prompts and cells are left as they are *)
Abort ==
  /\ Processing # {}
  /\ Aborts \/ Batched = {}                                    \* bound
  /\ Released(Processing)
  /\ UNCHANGED <<held, cached, default, file>>

(* the end of the generation, or a cancelled task *)
Release(s) ==
  /\ AtRest
  /\ ~Idle(s)
  /\ Released({s})
  /\ UNCHANGED <<held, cached, default, file>>

(***************************************************************************)
(* Slot actions and adapters.                                              *)
(***************************************************************************)
SlotSave(s) ==
  /\ AtRest /\ Idle(s)
  /\ prompt[s] \in Filed                                        \* bound
  /\ file' = [tokens |-> prompt[s], main |-> main[s]]
  /\ UNCHANGED <<held, running, cached, default>>

(* Only the main context is restored.  The file may be invalid, or its state   *)
(* not fit: then the sequence has been removed.  A state without cells is not  *)
(* read at all.                                                                *)
SlotRestore(s, outcome) ==
  /\ AtRest /\ Idle(s)
  /\ prompt' = [prompt EXCEPT ![s] = IF outcome = "ok" THEN file.tokens ELSE <<>>]
  /\ main' = IF outcome = "invalid" \/ file.main = <<>> THEN main
             ELSE [main EXCEPT ![s] = IF outcome = "ok" THEN file.main ELSE <<>>]
  /\ UNCHANGED <<drft, running, cached, default, file>>

SlotErase(s) ==
  /\ AtRest /\ Idle(s)
  /\ Becomes(Cleared(Memory, s))
  /\ UNCHANGED <<running, default, file>>

SetLora(l) ==
  /\ AtRest
  /\ default' = l
  /\ UNCHANGED <<held, running, cached, file>>

Filled  == {s \in Slot : prompt[s] # <<>>}
Refused == {"none"} \cup IF cache = <<>> THEN {} ELSE Refusals

Next ==
  \/ \E r \in Requests, full \in SUBSET Filled, refusal \in Refused :
       \/ Defer(r, full, refusal)
       \/ \E valid \in BOOLEAN : Launch(r, full, refusal, valid)
  \/ \E s \in Slot :
       \/ Start(s) \/ Release(s)
       \/ \E tok \in Sampled : Generate(s, tok)
       \/ SlotSave(s) \/ SlotErase(s)
       \/ \E outcome \in {"ok", "invalid", "unfit"} : SlotRestore(s, outcome)
  \/ Decode \/ Evict \/ DecodeFails \/ Abort
  \/ \E l \in Adapters : SetLora(l)

Spec == Init /\ [][Next]_vars

(***************************************************************************)
(* Properties.                                                             *)
(***************************************************************************)
Cell       == [tok : Tokens, lora : Adapters]
CacheEntry == [tokens : Seq(Tokens), main : Seq(Cell), drft : Seq(Cell)]
States     == {"idle", "started", "batched", "generating"}

(* Prompts and contents are sequences, the slots are ordered by use.         *)
TypeOK ==
  /\ prompt \in [Slot -> Seq(Tokens)]
  /\ main \in [Slot -> Seq(Cell)] /\ drft \in [Slot -> Seq(Cell)]
  /\ lora \in [Slot -> Adapters \cup {"none"}] /\ default \in Adapters
  /\ state \in [Slot -> States]
  /\ request \in [Slot -> Prompts \cup {<<>>}]
  /\ \A s \in Slot : Idle(s) <=> request[s] = <<>>
  /\ \A s \in Slot : ~Idle(s) => lora[s] # "none"
  /\ used \in [Slot -> Slot] /\ \A s, t \in Slot : used[s] = used[t] => s = t
  /\ cache \in Seq(CacheEntry)
  /\ limit \in Nat
  /\ file \in [tokens : Seq(Tokens), main : Seq(Cell)]

(* What a slot claims to hold is in its cells, token by token from position 0, *)
(* whatever was saved, loaded, restored, cut, refused or failed before: the    *)
(* next request that shares a prefix with the claim skips just that prefix.    *)
PromptBacked == \A s \in Slot : state[s] # "batched" => IsPrefix(prompt[s], TokensOf(main[s]))

(* So do the entries of the cache: restoring one never gives a slot a prompt   *)
(* that the data of the entry does not hold.                                   *)
EntriesBacked == \A i \in DOMAIN cache : IsPrefix(cache[i].tokens, TokensOf(cache[i].main))

(* No entry holds what another one holds already, in whatever order prompts    *)
(* that continue each other are saved.                                         *)
NoEntryTwice ==
  \A i, j \in DOMAIN cache : IsPrefix(cache[i].tokens, cache[j].tokens) => i = j

(* Between two tasks the cache keeps to its limit, as reduced by failed        *)
(* allocations, but for a single entry that is larger.                         *)
WithinLimit == Len(cache) <= 1 \/ limit = 0 \/ CacheSize(cache) <= limit

(* Every prompt to be had before is a prefix of one to be had afterwards.      *)
Available == {prompt[s] : s \in Slot} \cup {cache[i].tokens : i \in DOMAIN cache}
Survives  == \A p \in Available : \E q \in Available' : IsPrefix(p, q)

(* There is room in the cache for all that the slots hold.  A limit that is    *)
(* reduced to the least no longer shows whether another allocation fails.      *)
Ample ==
  LET all == cache \o [k \in 1 .. NSlots |-> Entry(Memory, k - 1)]
  IN  /\ limit = 0 \/ (limit > 1 /\ CacheSize(all) <= limit)
      /\ LimitTokens = 0 \/ CacheTokens(all) <= LimitTokens

(* A completion that is launched moves prompts between slots and cache and     *)
(* loses none: the one that another replaces in a slot, that is cleared when   *)
(* the other cannot be restored, or that leaves with an idle slot is in the    *)
(* cache, if there is room and no allocation fails.  Only a change of the      *)
(* adapters drops the prompt of the slot.                                      *)
NothingForgotten ==
  [][ \A s \in Slot :
        state[s] = "idle" /\ state'[s] = "started" /\ lora'[s] = lora[s]
          /\ limit' = limit /\ Ample => Survives ]_vars

(* "if lora has changed, check to see if the cache should be cleared": the     *)
(* part of a prompt that was computed earlier and is not computed again was    *)
(* computed with the adapters that the slot works with.                        *)
AdaptersAgree ==
  \A s \in Slot : state[s] = "generating" =>
    \A k \in DOMAIN prompt[s] : main[s][k].lora = lora[s]

(* "if requested slot is unavailable, we defer this task for processing       *)
(* later": while a slot generates, its prompt only grows.                      *)
BusyPromptStays ==
  [][ \A s \in Slot : state[s] = "generating" /\ state'[s] = "generating" =>
        IsPrefix(prompt[s], prompt'[s]) ]_vars

=============================================================================
