---------------------------- MODULE Subscriptions ----------------------------
(***************************************************************************)
(* subscribe(), unsubscribe() and dispatchMessage() of MessageBus, running *)
(* concurrently: the copy-on-write map of topic slots, each slot's         *)
(* copy-on-write list of subscribers (topic_slot.h), the wildcard trie     *)
(* (wildcard_trie.h, here the set of its entries) and sub_to_topic_.       *)
(*                                                                         *)
(* A dispatcher reads snapshots without locks and calls handlers from      *)
(* them; a handler may itself subscribe and unsubscribe.  What a mutex     *)
(* protects and publishes with one atomic store is one step.  A handler    *)
(* that throws ends like one that returns (TopicSlot::dispatch).  Patterns *)
(* that subscribe() refuses, which only cost an id, are left out.          *)
(***************************************************************************)
EXTENDS Integers, Sequences, FiniteSets, SequencesExt

CONSTANTS Callers,      \* application threads
          Dispatchers,  \* threads in dispatchMessage
          Topics, Patterns,
          Matches,      \* the topics each pattern matches
          Types,        \* the types of messages
          MaxIds,       \* bound: subscribe() calls
          MaxMessages   \* bound: messages each dispatcher dispatches

ASSUME KeysAssumption == /\ Topics \cap Patterns = {}
                         /\ Matches \in [Patterns -> SUBSET Topics]
ASSUME MessagesAssumption == Topics # {} /\ Types # {}
ASSUME SubscriptionBounds == MaxIds \in Nat /\ MaxMessages \in Nat

Threads == Callers \cup Dispatchers
Ids == 1..MaxIds
NoId == 0
NoSlot == 0

VARIABLES
  next_id,
  slots,        \* slots_: the index of each topic's slot, or NoSlot
  slot,         \* the TopicSlots created so far: type and subscribers
  trie,         \* wildcard_trie_: the ids of its entries
  live,         \* the wildcard entries whose own slot still has its subscriber
  sub_to_topic, \* the ids it has an entry for
  info,         \* what each id was subscribed to: topic or pattern, and type
  op,           \* where each thread is in subscribe() or unsubscribe()
  arg,          \* the id it works on
  found,        \* the slot it has found or created
  dpc,          \* where each dispatcher is in dispatchMessage
  msg,          \* its message: topic and type
  at,           \* the slot it has found
  todo,         \* the snapshot of subscribers it works through
  matched,      \* the trie entries it has matched
  calling,      \* the id whose handler runs, or NoId
  sent,         \* messages it has dispatched
  returned,     \* ids subscribe() has returned
  cancelling,   \* ids unsubscribe() has been called with
  cancelled,    \* ids whose removal has returned
  called,       \* handlers called for each dispatcher's message, in order
  expected,     \* ids subscribed when its dispatch began
  gone          \* ids cancelled when its dispatch began

stateVars == <<next_id, slots, slot, trie, live, sub_to_topic, info>>
callVars == <<op, arg, found>>
dispatchVars == <<dpc, msg, at, todo, matched, calling, sent>>
historyVars == <<returned, cancelling, cancelled, called, expected, gone>>
vars == <<stateVars, callVars, dispatchVars, historyVars>>

OpSteps == {"idle", "find", "create", "add", "insert", "register",
            "erase", "remove", "remove_wild", "publish_trie"}
DispatchSteps == {"idle", "find", "load", "run", "match", "next", "run_wild"}

TypeOK ==
  /\ next_id \in 0..MaxIds
  /\ slots \in [Topics -> 0..Len(slot)]
  /\ slot \in Seq([type : Types, subs : Seq(Ids)])
  /\ trie \subseteq Ids
  /\ live \subseteq Ids
  /\ sub_to_topic \subseteq Ids
  /\ info \in [1..next_id -> [key : Topics \cup Patterns, type : Types]]
  /\ op \in [Threads -> OpSteps]
  /\ arg \in [Threads -> {NoId} \cup Ids]
  /\ found \in [Threads -> 0..Len(slot)]
  /\ dpc \in [Dispatchers -> DispatchSteps]
  /\ msg \in [Dispatchers -> [topic : Topics, type : Types]]
  /\ at \in [Dispatchers -> 0..Len(slot)]
  /\ todo \in [Dispatchers -> Seq(Ids)]
  /\ matched \in [Dispatchers -> SUBSET Ids]
  /\ calling \in [Dispatchers -> {NoId} \cup Ids]
  /\ sent \in [Dispatchers -> 0..MaxMessages]
  /\ cancelling \subseteq returned /\ returned \subseteq Ids
  /\ cancelled \subseteq cancelling
  /\ called \in [Dispatchers -> Seq(Ids)]
  /\ expected \in [Dispatchers -> SUBSET Ids]
  /\ gone \in [Dispatchers -> SUBSET Ids]

AnyMessage == CHOOSE m \in [topic : Topics, type : Types] : TRUE

Init ==
  /\ next_id = 0
  /\ slots = [k \in Topics |-> NoSlot]
  /\ slot = <<>>
  /\ trie = {} /\ live = {} /\ sub_to_topic = {}
  /\ info = <<>>
  /\ op = [t \in Threads |-> "idle"]
  /\ arg = [t \in Threads |-> NoId]
  /\ found = [t \in Threads |-> NoSlot]
  /\ dpc = [d \in Dispatchers |-> "idle"]
  /\ msg = [d \in Dispatchers |-> AnyMessage]
  /\ at = [d \in Dispatchers |-> NoSlot]
  /\ todo = [d \in Dispatchers |-> <<>>]
  /\ matched = [d \in Dispatchers |-> {}]
  /\ calling = [d \in Dispatchers |-> NoId]
  /\ sent = [d \in Dispatchers |-> 0]
  /\ returned = {} /\ cancelling = {} /\ cancelled = {}
  /\ called = [d \in Dispatchers |-> <<>>]
  /\ expected = [d \in Dispatchers |-> {}]
  /\ gone = [d \in Dispatchers |-> {}]

(* A dispatcher calls the bus only from inside a handler. *)
MayCall(t) == op[t] = "idle" /\ (t \in Dispatchers => calling[t] # NoId)

Goto(t, step) == op' = [op EXCEPT ![t] = step]

(* A call ends, normally or by an exception: its locals are gone. *)
EndCall(t) ==
  /\ Goto(t, "idle")
  /\ arg' = [arg EXCEPT ![t] = NoId]
  /\ found' = [found EXCEPT ![t] = NoSlot]

IsWildcard(id) == info[id].key \in Patterns

-----------------------------------------------------------------------------
(* subscribe(topic, handler)                                               *)

Subscribe(t, key, type) ==
  /\ MayCall(t)
  /\ next_id < MaxIds
  /\ next_id' = next_id + 1
  /\ info' = Append(info, [key |-> key, type |-> type])
  /\ arg' = [arg EXCEPT ![t] = next_id']
  /\ Goto(t, IF key \in Patterns THEN "insert" ELSE "find")
  /\ UNCHANGED <<slots, slot, trie, live, sub_to_topic, found, dispatchVars, historyVars>>

(* checkedSlot: a slot of another type makes subscribe() throw. *)
CheckSlot(t, s) ==
  IF slot[s].type = info[arg[t]].type
  THEN Goto(t, "add") /\ found' = [found EXCEPT ![t] = s] /\ UNCHANGED arg
  ELSE EndCall(t)

(* getOrCreateSlot, fast path: the topic is looked up in a snapshot. *)
FindSlot(t) ==
  /\ op[t] = "find"
  /\ LET s == slots[info[arg[t]].key] IN
       IF s # NoSlot THEN CheckSlot(t, s)
                     ELSE Goto(t, "create") /\ UNCHANGED <<arg, found>>
  /\ UNCHANGED <<stateVars, dispatchVars, historyVars>>

(* Mutant: under the mutex the map is not looked up again. *)
CreateSlotUnchecked(t) ==
  /\ op[t] = "create"
  /\ slot' = Append(slot, [type |-> info[arg[t]].type, subs |-> <<>>])
  /\ slots' = [slots EXCEPT ![info[arg[t]].key] = Len(slot')]
  /\ found' = [found EXCEPT ![t] = Len(slot')]
  /\ Goto(t, "add")
  /\ UNCHANGED <<next_id, trie, live, sub_to_topic, info, arg, dispatchVars, historyVars>>

(* getOrCreateSlot, slow path, under slots_write_mutex_ *)
CreateSlot(t) ==
  /\ op[t] = "create"
  /\ LET key == info[arg[t]].key IN
       IF slots[key] # NoSlot
       THEN CheckSlot(t, slots[key]) /\ UNCHANGED <<slot, slots>>
       ELSE /\ slot' = Append(slot, [type |-> info[arg[t]].type, subs |-> <<>>])
            /\ slots' = [slots EXCEPT ![key] = Len(slot')]
            /\ found' = [found EXCEPT ![t] = Len(slot')]
            /\ Goto(t, "add")
            /\ UNCHANGED arg
  /\ UNCHANGED <<next_id, trie, live, sub_to_topic, info, dispatchVars, historyVars>>

(* slot->addSubscriber, under the slot's write_mutex_ *)
AddSubscriber(t) ==
  /\ op[t] = "add"
  /\ slot' = [slot EXCEPT ![found[t]].subs = Append(@, arg[t])]
  /\ Goto(t, "register")
  /\ UNCHANGED <<next_id, slots, trie, live, sub_to_topic, info, arg, found,
                 dispatchVars, historyVars>>

(* Mutant: a dispatch holds the lock of the trie while handlers run. *)
TrieLockedByDispatch == \/ \E t \in Threads : op[t] = "publish_trie"
                        \/ \E d \in Dispatchers : dpc[d] = "run_wild"

(* The write mutex of the trie is held from removeSubscriber to publishSnapshot. *)
TrieLocked == \E t \in Threads : op[t] = "publish_trie"

(* A wildcard subscription has a slot of its own; wildcard_trie_.insert. *)
InsertWildcard(t) ==
  /\ op[t] = "insert"
  /\ ~TrieLocked
  /\ trie' = trie \cup {arg[t]}
  /\ live' = live \cup {arg[t]}
  /\ Goto(t, "register")
  /\ UNCHANGED <<next_id, slots, slot, sub_to_topic, info, arg, found,
                 dispatchVars, historyVars>>

(* sub_to_topic_[id] = ..., and subscribe() returns *)
Register(t) ==
  /\ op[t] = "register"
  /\ sub_to_topic' = sub_to_topic \cup {arg[t]}
  /\ returned' = returned \cup {arg[t]}
  /\ EndCall(t)
  /\ UNCHANGED <<next_id, slots, slot, trie, live, info, dispatchVars,
                 cancelling, cancelled, called, expected, gone>>

-----------------------------------------------------------------------------
(* unsubscribe(id): any id subscribe() has returned, any number of times   *)

Unsubscribe(t, id) ==
  /\ MayCall(t)
  /\ id \in returned
  /\ cancelling' = cancelling \cup {id}
  /\ arg' = [arg EXCEPT ![t] = id]
  /\ Goto(t, "erase")
  /\ UNCHANGED <<stateVars, found, dispatchVars, returned, cancelled,
                 called, expected, gone>>

(* It is not in sub_to_topic_ any more: return at once. *)
EraseNothing(t) ==
  /\ op[t] = "erase"
  /\ arg[t] \notin sub_to_topic
  /\ EndCall(t)
  /\ UNCHANGED <<stateVars, dispatchVars, returned, cancelling, cancelled,
                 called, expected, gone>>

Erase(t) ==
  /\ op[t] = "erase"
  /\ arg[t] \in sub_to_topic
  /\ sub_to_topic' = sub_to_topic \ {arg[t]}
  /\ Goto(t, IF IsWildcard(arg[t]) THEN "remove_wild" ELSE "remove")
  /\ UNCHANGED <<next_id, slots, slot, trie, live, info, arg, found,
                 dispatchVars, historyVars>>

(* The removal is over and unsubscribe() returns. *)
Removed(t) ==
  /\ cancelled' = cancelled \cup {arg[t]}
  /\ EndCall(t)
  /\ UNCHANGED <<dispatchVars, returned, cancelling, called, expected, gone>>

(* The loop of removeSubscriber: the new list has all others, in their order. *)
Without(subs, id) ==
  LET new_list[n \in 0..Len(subs)] ==
        IF n = 0 THEN <<>>
        ELSE IF subs[n] = id THEN new_list[n - 1] ELSE Append(new_list[n - 1], subs[n])
  IN  new_list[Len(subs)]

(* Mutant: the subscriber that goes is the one the new list keeps. *)
RemoveOthers(t) ==
  /\ op[t] = "remove"
  /\ LET s == slots[info[arg[t]].key] IN
       slot' = [slot EXCEPT ![s].subs = SelectSeq(@, LAMBDA i : i = arg[t])]
  /\ Removed(t)
  /\ UNCHANGED <<next_id, slots, trie, live, sub_to_topic, info>>

(* slot->removeSubscriber(id) *)
RemoveExact(t) ==
  /\ op[t] = "remove"
  /\ LET s == slots[info[arg[t]].key] IN
       slot' = [slot EXCEPT ![s].subs = Without(@, arg[t])]
  /\ Removed(t)
  /\ UNCHANGED <<next_id, slots, trie, live, sub_to_topic, info>>

(* wildcard_trie_.remove(id): the entry's slot loses its subscriber ... *)
RemoveWildcard(t) ==
  /\ op[t] = "remove_wild"
  /\ ~TrieLocked
  /\ live' = live \ {arg[t]}
  /\ Goto(t, "publish_trie")
  /\ UNCHANGED <<next_id, slots, slot, trie, sub_to_topic, info, arg, found,
                 dispatchVars, historyVars>>

(* ... and the trie without the entry is published. *)
PublishTrie(t) ==
  /\ op[t] = "publish_trie"
  /\ trie' = trie \ {arg[t]}
  /\ Removed(t)
  /\ UNCHANGED <<next_id, slots, slot, live, sub_to_topic, info>>

-----------------------------------------------------------------------------
(* dispatchMessage(msg)                                                    *)

Dispatch(d, topic, type) ==
  /\ dpc[d] = "idle"
  /\ sent[d] < MaxMessages
  /\ sent' = [sent EXCEPT ![d] = @ + 1]
  /\ msg' = [msg EXCEPT ![d] = [topic |-> topic, type |-> type]]
  /\ dpc' = [dpc EXCEPT ![d] = "find"]
  /\ called' = [called EXCEPT ![d] = <<>>]
  /\ expected' = [expected EXCEPT ![d] = returned \ cancelling]
  /\ gone' = [gone EXCEPT ![d] = cancelled]
  /\ UNCHANGED <<stateVars, callVars, at, todo, matched, calling, returned,
                 cancelling, cancelled>>

(* Mutant: without an exact subscription the wildcards are not matched. *)
FindExactOnly(d) ==
  /\ dpc[d] = "find"
  /\ LET s == slots[msg[d].topic] IN
       IF s # NoSlot /\ slot[s].type = msg[d].type
       THEN dpc' = [dpc EXCEPT ![d] = "load"] /\ at' = [at EXCEPT ![d] = s]
       ELSE dpc' = [dpc EXCEPT ![d] = "next"] /\ UNCHANGED at
  /\ UNCHANGED <<stateVars, callVars, msg, todo, matched, calling, sent, historyVars>>

(* Mutant: the type of the message is not compared with the slot's. *)
FindAnyType(d) ==
  /\ dpc[d] = "find"
  /\ LET s == slots[msg[d].topic] IN
       IF s # NoSlot
       THEN dpc' = [dpc EXCEPT ![d] = "load"] /\ at' = [at EXCEPT ![d] = s]
       ELSE dpc' = [dpc EXCEPT ![d] = "match"] /\ UNCHANGED at
  /\ UNCHANGED <<stateVars, callVars, msg, todo, matched, calling, sent, historyVars>>

(* The slot of the topic, if its type is the message's *)
FindExact(d) ==
  /\ dpc[d] = "find"
  /\ LET s == slots[msg[d].topic] IN
       IF s # NoSlot /\ slot[s].type = msg[d].type
       THEN dpc' = [dpc EXCEPT ![d] = "load"] /\ at' = [at EXCEPT ![d] = s]
       ELSE dpc' = [dpc EXCEPT ![d] = "match"] /\ UNCHANGED at
  /\ UNCHANGED <<stateVars, callVars, msg, todo, matched, calling, sent, historyVars>>

(* TopicSlot::dispatch: loadSubscribers *)
LoadSubscribers(d) ==
  /\ dpc[d] = "load"
  /\ todo' = [todo EXCEPT ![d] = slot[at[d]].subs]
  /\ at' = [at EXCEPT ![d] = NoSlot]
  /\ dpc' = [dpc EXCEPT ![d] = "run"]
  /\ UNCHANGED <<stateVars, callVars, msg, matched, calling, sent, historyVars>>

Call(d) ==
  /\ dpc[d] \in {"run", "run_wild"}
  /\ calling[d] = NoId
  /\ todo[d] # <<>>
  /\ calling' = [calling EXCEPT ![d] = Head(todo[d])]
  /\ todo' = [todo EXCEPT ![d] = Tail(@)]
  /\ called' = [called EXCEPT ![d] = Append(@, Head(todo[d]))]
  /\ UNCHANGED <<stateVars, callVars, dpc, msg, at, matched, sent, returned,
                 cancelling, cancelled, expected, gone>>

HandlerEnds(d) ==
  /\ calling[d] # NoId
  /\ op[d] = "idle"
  /\ calling' = [calling EXCEPT ![d] = NoId]
  /\ UNCHANGED <<stateVars, callVars, dpc, msg, at, todo, matched, sent, historyVars>>

AllCalled(d) ==
  /\ dpc[d] \in {"run", "run_wild"}
  /\ calling[d] = NoId
  /\ todo[d] = <<>>
  /\ dpc' = [dpc EXCEPT ![d] = IF dpc[d] = "run" THEN "match" ELSE "next"]
  /\ UNCHANGED <<stateVars, callVars, msg, at, todo, matched, calling, sent, historyVars>>

(* wildcard_trie_.match: the entries of one snapshot that match *)
MatchWildcards(d) ==
  /\ dpc[d] = "match"
  /\ matched' = [matched EXCEPT ![d] =
       {id \in trie : msg[d].topic \in Matches[info[id].key] /\ info[id].type = msg[d].type}]
  /\ dpc' = [dpc EXCEPT ![d] = "next"]
  /\ UNCHANGED <<stateVars, callVars, msg, at, todo, calling, sent, historyVars>>

(* The next matched slot is asked for the subscribers it has now. *)
NextMatched(d) ==
  /\ dpc[d] = "next"
  /\ \E id \in matched[d] :
       /\ matched' = [matched EXCEPT ![d] = @ \ {id}]
       /\ todo' = [todo EXCEPT ![d] = IF id \in live THEN <<id>> ELSE <<>>]
  /\ dpc' = [dpc EXCEPT ![d] = "run_wild"]
  /\ UNCHANGED <<stateVars, callVars, msg, at, calling, sent, historyVars>>

DispatchEnds(d) ==
  /\ dpc[d] = "next"
  /\ matched[d] = {}
  /\ dpc' = [dpc EXCEPT ![d] = "idle"]
  /\ UNCHANGED <<stateVars, callVars, msg, at, todo, matched, calling, sent, historyVars>>

-----------------------------------------------------------------------------

(* One step of a call in progress. *)
CallStep(t) ==
  \/ FindSlot(t)
  \/ CreateSlot(t)
  \/ AddSubscriber(t)
  \/ InsertWildcard(t)
  \/ Register(t)
  \/ EraseNothing(t)
  \/ Erase(t)
  \/ RemoveExact(t)
  \/ RemoveWildcard(t)
  \/ PublishTrie(t)

DispatchStep(d) ==
  \/ FindExact(d)
  \/ LoadSubscribers(d)
  \/ Call(d)
  \/ HandlerEnds(d)
  \/ AllCalled(d)
  \/ MatchWildcards(d)
  \/ NextMatched(d)
  \/ DispatchEnds(d)

Next ==
  \/ \E t \in Threads :
       \/ \E key \in Topics \cup Patterns, type \in Types : Subscribe(t, key, type)
       \/ \E id \in Ids : Unsubscribe(t, id)
       \/ CallStep(t)
  \/ \E d \in Dispatchers :
       \/ \E topic \in Topics, type \in Types : Dispatch(d, topic, type)
       \/ DispatchStep(d)

Spec == Init /\ [][Next]_vars
-----------------------------------------------------------------------------
(* Safety                                                                  *)

Subscribers(s) == {slot[s].subs[k] : k \in DOMAIN slot[s].subs}

(* A subscription that subscribe() has returned stays in force until         *)
(* unsubscribe() is called: it is in the slot that dispatchers find, although *)
(* slots are created concurrently and lists are copied (getOrCreateSlot,      *)
(* addSubscriber, WildcardTrie::insert); and what the bus keeps is well       *)
(* formed, the slots of the map existing ones.                                *)
InForce ==
  /\ TypeOK
  /\ \A id \in returned \ cancelling :
       IF IsWildcard(id) THEN id \in trie \cap live
       ELSE slots[info[id].key] # NoSlot /\ id \in Subscribers(slots[info[id].key])

(* Nothing of a subscription is left once unsubscribe() has removed it, in   *)
(* any slot, the trie or sub_to_topic_.                                      *)
NothingLeft ==
  \A id \in cancelled :
    /\ id \notin trie \cup live \cup sub_to_topic
    /\ \A s \in DOMAIN slot : id \notin Subscribers(s)

Wanted(d, id) ==
  /\ info[id].type = msg[d].type
  /\ IF IsWildcard(id) THEN msg[d].topic \in Matches[info[id].key]
                       ELSE msg[d].topic = info[id].key

(* A dispatch calls every handler that was subscribed to its message when it *)
(* began and was not being unsubscribed when it ended, and none twice, although *)
(* handlers subscribe and unsubscribe meanwhile (dispatchMessage).              *)
Complete ==
  \A d \in Dispatchers :
    /\ IsInjective(called[d])
    /\ dpc[d] = "next" /\ matched[d] = {} =>
         \A id \in expected[d] \ cancelling : Wanted(d, id) => id \in ToSet(called[d])

(* "Subsequent dispatches will no longer invoke it" (line 266): a dispatch   *)
(* that began after the removal had returned does not call the handler, and  *)
(* no dispatch calls a handler for a message it was not subscribed to.       *)
NoLateCall ==
  \A d \in Dispatchers : calling[d] # NoId =>
    calling[d] \notin gone[d] /\ Wanted(d, calling[d])

-----------------------------------------------------------------------------
(* Threads inside the bus are scheduled; a handler makes finitely many      *)
(* calls and ends.                                                          *)
Fairness == /\ \A t \in Threads : WF_vars(CallStep(t))
            /\ \A d \in Dispatchers : /\ WF_vars(DispatchStep(d))
                                      /\ SF_vars(HandlerEnds(d))

FairSpec == Spec /\ Fairness

(* No deadlock between handlers, the dispatch and the locks: a dispatch whose *)
(* handlers call subscribe() and unsubscribe() ends.                          *)
DispatchReturns == \A d \in Dispatchers : dpc[d] # "idle" ~> dpc[d] = "idle"
=============================================================================
