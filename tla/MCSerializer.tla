---------------------------- MODULE MCSerializer ----------------------------
(* Instances of Serializer for TLC. *)
EXTENDS Serializer, TLC

CONSTANTS main, side, a, b, i1     \* refs, targets and an intent id

MCIntentRefs == {side}

Pay(r, t) == [NoPayload EXCEPT !.ref = r, !.target = t]
Call0 == [verb |-> "submit", kind |-> "note", chain |-> <<"worker">>,
          payload |-> NoPayload, target |-> 0]

Update(r, t, ch) == [Call0 EXCEPT !.kind = "ref.update", !.chain = ch,
                                  !.payload = Pay(r, t)]
Delete(r, ch) == [Call0 EXCEPT !.kind = "ref.delete", !.chain = ch,
                               !.payload = Pay(r, None)]
Undo(k, ch) == [Call0 EXCEPT !.verb = "undo", !.target = k, !.chain = ch]
Import(r, t, i, ch) == [Call0 EXCEPT !.verb = "import", !.chain = ch,
                          !.payload = import_payload(i, r, t)]

\* A log with one update and one record that touches no ref.
Seeded == append(append(<<>>, "ref.update", <<"human">>, Pay(main, a)),
                 "note", <<"worker">>, NoPayload)

MCInitialLogs == {<<>>, Seeded}

MCCalls == {Update(main, b, <<"human", "agent">>), Delete(main, <<"orch">>),
            Undo(0, <<"user">>), Undo(2, <<"human", "worker">>),
            Import(side, a, i1, <<"bogus">>)}

\* The hypothesis under which an intent lands once.
ASSUME IntentsByImport

Symmetry == Permutations(Threads)
=============================================================================
