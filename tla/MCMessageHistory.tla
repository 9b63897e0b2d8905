-------------------------- MODULE MCMessageHistory --------------------------
(* A small database for TLC: the values come from the configurations.      *)
EXTENDS MessageHistory, TLC

CONSTANT stranger

Symmetry == Permutations(Message)

Foreign == {m \in Message : sent[m] # Unsent /\ sent[m].place \notin Room
                              /\ stranger \in sent[m].place}

Asking(kinds) == \A t \in Reader : \A x \in request[t] : x.query.kind \in kinds

\* Bounds of the run.  One user has no conversation with those who ask: he sends
\* one private message, to somebody else, and nobody clears his messages.  While
\* there is such a message the context of private messages is all that is asked
\* for, since only there does another conversation play a part.  While there is a
\* deleted message, those requests are made that leave it out: search, and pages
\* of private messages.
Bounds ==
    /\ Cardinality(Foreign') <= 1
    /\ \A m \in Foreign' : sent'[m].place \cap Viewer = {}
    /\ \A w \in Writer : \A x \in writing'[w] : x.mark[2] # stranger
    /\ Foreign' # {} => deleted' = {} /\ Asking({"pmcontext"})'
    /\ deleted' # {} => Asking({"search", "pm"})'
=============================================================================
