----------------------------- MODULE JsonRoundTrip -----------------------------
(***************************************************************************)
(* The jansson library as the application uses it (Workspace.m, Stats.m,   *)
(* nodeapp.c): a text is loaded, the object it holds is changed, and what  *)
(* came of it is dumped and loaded again.  A task brings the text, what is *)
(* known of it, and the changes that are tried.                            *)
(***************************************************************************)
EXTENDS JsonDump

CONSTANTS JsonTasks, MaxChanges,
          \* The library under test, as its header declares it.
          json_loads(_, _), json_dumps(_, _)

VARIABLES work,        \* the task
          phase,       \* how far it is
          root,        \* the value in memory
          members,     \* of the object that is changed: its keys and values in
                       \* the order they came
          changes,     \* how many there were
          style, dumped,   \* how it was written, and what
          reloaded     \* what was read back

jsonVars == <<work, phase, root, members, changes, style, dumped, reloaded>>

\* "verdict" says whether a text is JSON ("yes", "no"), as far as that is the
\* question ("open"); "meaning" is the value it must have, or Unknown.
Unknown == Simple("unknown")
JsonTask(octets, verdict, meaning, flags, keys, styles) ==
    [octets |-> octets, verdict |-> verdict, meaning |-> meaning, flags |-> flags,
     keys |-> keys, styles |-> styles]

JsonIdle ==
    /\ work = JsonTask(<<>>, "open", Unknown, {}, {}, {}) /\ phase = "idle"
    /\ root = Unknown /\ members = <<>> /\ changes = 0
    /\ style = Style(0, {}) /\ dumped = NoText /\ reloaded = Unknown

JsonInit ==
    \E t \in JsonTasks :
        /\ work = t /\ phase = "given"
        /\ root = Unknown /\ members = <<>> /\ changes = 0
        /\ style = Style(0, {}) /\ dumped = NoText /\ reloaded = Unknown

Member(key, value) == [key |-> key, value |-> value]

MembersOf(pairs) == [i \in DOMAIN pairs |-> Member(pairs[i].key, pairs[i].value)]

\* The members of an object in the order of their serial numbers.
InOrder(object) ==
    MembersOf(SortSeq(object.table.pairs, LAMBDA p, q : p.serial < q.serial))

LoadText ==
    /\ phase = "given"
    /\ LET result == json_loads(work.octets, work.flags)
       IN IF result.status # "ok"
          THEN phase' = result.status /\ UNCHANGED <<root, members>>
          ELSE /\ phase' = "loaded" /\ root' = result.value
               /\ members' = IF work.keys # {} THEN InOrder(root') ELSE <<>>
    /\ UNCHANGED <<work, changes, style, dumped, reloaded>>

-------------------------------------------------------------------------------
(* Changes to an object; "members" follows what they mean.                  *)

MayChange == phase = "loaded" /\ changes < MaxChanges
Changed == changes' = changes + 1 /\ UNCHANGED <<work, phase, style, dumped, reloaded>>

Without(key) == SelectSeq(members, LAMBDA m : m.key # key)
With(key, value) ==
    IF Without(key) = members THEN Append(members, Member(key, value))
    ELSE [i \in DOMAIN members |-> IF members[i].key = key THEN Member(key, value) ELSE members[i]]

NewValue == StringValue(Ascii("v"))

SetMember ==
    /\ MayChange
    /\ \E key \in work.keys :
           /\ root' = ObjectSet(root, key, NewValue)
           /\ members' = With(key, NewValue)
    /\ Changed

\* json_object_extract (nodeapp.c) deletes what it has found.
ExtractMember ==
    /\ MayChange
    /\ \E key \in work.keys :
           /\ ObjectHas(root, key)
           /\ root' = ObjectDel(root, key)
           /\ members' = Without(key)
    /\ Changed

ClearMembers ==
    /\ MayChange /\ work.keys # {} /\ members # <<>>
    /\ root' = ObjectClear(root)
    /\ members' = <<>>
    /\ Changed

\* The members of a copy came in the order of the list of the original.
ReplaceByCopy ==
    /\ MayChange /\ work.keys # {} /\ members # <<>>
    /\ root' = DeepCopy(root)
    /\ members' = MembersOf(root.table.pairs)
    /\ Changed

UpdateByCopy ==
    /\ MayChange /\ work.keys # {} /\ members # <<>>
    /\ root' = ObjectUpdate(root, DeepCopy(root))
    /\ UNCHANGED members
    /\ Changed

-------------------------------------------------------------------------------
(* Writing and reading back.                                                *)

DumpRoot ==
    /\ phase = "loaded"
    /\ \E chosen \in work.styles :
           /\ style' = chosen
           /\ dumped' = json_dumps(root, chosen)
    /\ phase' = "dumped"
    /\ UNCHANGED <<work, root, members, changes, reloaded>>

Reload ==
    /\ phase = "dumped"
    /\ LET result == json_loads(dumped, {})
       IN IF result.status # "ok" THEN phase' = "unreadable" /\ UNCHANGED reloaded
          ELSE phase' = "done" /\ reloaded' = result.value
    /\ UNCHANGED <<work, root, members, changes, style, dumped>>

JsonNext == \/ LoadText \/ SetMember \/ ExtractMember \/ ClearMembers
            \/ ReplaceByCopy \/ UpdateByCopy \/ DumpRoot \/ Reload

-------------------------------------------------------------------------------
(* Properties.                                                              *)

RECURSIVE Sound(_)
Sound(value) ==
    CASE value.type = "object" ->
           /\ SoundTable(value.table)
           /\ \A i \in DOMAIN value.table.pairs :
                  /\ value.table.pairs[i].serial < value.serial
                  /\ Sound(value.table.pairs[i].value)
      [] value.type = "array" -> \A i \in DOMAIN value.items : Sound(value.items[i])
      [] OTHER -> TRUE

\* The object that was changed has the members, and in their order, that the
\* changes left it.
KeepsMembers == phase = "loaded" /\ work.keys # {} => InOrder(root) = members

\* Texts are told apart as RFC 4627 would; octets that are not UTF-8 belong
\* to no text.
TellsJson ==
    /\ work.verdict = "yes" => phase \notin {"refused", "aborted"}
    /\ work.verdict = "no" => phase \in {"given", "refused"}
    /\ phase = "loaded" /\ changes = 0 /\ work.meaning # Unknown => JsonEqual(root, work.meaning)

RestoresValue ==
    /\ phase # "unreadable"
    /\ phase = "done" =>
           /\ JsonEqual(root, reloaded) /\ JsonEqual(reloaded, root)
           /\ "SORT_KEYS" \in style.flags => json_dumps(reloaded, style) = dumped
           /\ "PRESERVE_ORDER" \in style.flags => json_dumps(reloaded, style) = dumped
           /\ "ENSURE_ASCII" \in style.flags => \A i \in DOMAIN dumped : dumped[i] < 128

\* jansson takes the texts that are JSON and no others, whatever they are cut
\* into; a value it has dumped, in whatever style, it reads back as an equal
\* value, and in the same order where the style keeps or sorts the keys; and
\* the table of an object, through rehashing, deletion and copying, finds the
\* members that it was given (load.c, dump.c, hashtable.c; Workspace.m saves
\* and loads all projects this way).
JsonSurvives == Sound(root) /\ KeepsMembers /\ TellsJson /\ RestoresValue
===============================================================================
