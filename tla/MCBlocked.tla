----------------------------- MODULE MCBlocked -----------------------------
(***************************************************************************)
(* Three connections over two keys, and the requests that each may send:   *)
(* one menu per kind of wait, chosen at start.                             *)
(***************************************************************************)
EXTENDS Blocked

MCClients == 1..3

\* left: the end popped or pushed; to: the timeout, 0 for none
Push(k, l) == [cmd |-> "PUSH", key |-> k, left |-> l]
Pop(cmd, ks, n, l, to) == [cmd |-> cmd, keys |-> ks, count |-> n, left |-> l, to |-> to]
Move(cmd, a, b, l, dl, to) ==
  [cmd |-> cmd, keys |-> <<a>>, dst |-> b, left |-> l, dleft |-> dl, to |-> to]
Many(cmd, a, b, l, dl, mode, order) ==
  [cmd |-> cmd, keys |-> <<a>>, dst |-> b, left |-> l, dleft |-> dl, to |-> 0,
   mode |-> mode, count |-> 2, order |-> order]
Read(cmd, k, id, to) == [cmd |-> cmd, keys |-> <<k>>, id |-> id, to |-> to]
On(cmd, k) == [cmd |-> cmd, key |-> k, left |-> FALSE]

MCRequests == {
  \* a pop with a deadline and a move over the same lists, one of which may
  \* become a string
  <<{Pop("BLPOP", <<"a", "b">>, 1, TRUE, 1)},
    {Move("BLMOVE", "b", "a", FALSE, TRUE, 0)},
    {Push("b", FALSE), On("SET", "a")}>>,
  \* a pop of several elements and a rotation of a list onto itself
  <<{Pop("BLMPOP", <<"a", "b">>, 2, FALSE, 0), Push("a", TRUE)},
    {Move("BLMOVE", "a", "a", TRUE, FALSE, 1)},
    {Push("a", TRUE), On("DEL", "a")}>>,
  \* moves of several elements, blocking and not
  <<{Many("BLMOVEM", "a", "b", TRUE, TRUE, "exactly", "bulk")},
    {Push("a", FALSE), Many("LMOVEM", "a", "b", FALSE, TRUE, "count", "obo")},
    {Pop("BLPOP", <<"b">>, 1, FALSE, 0)}>>,
  \* sorted sets, one of whose keys may hold a list
  <<{Pop("BZPOP", <<"a", "b">>, 1, TRUE, 0)},
    {Pop("BZMPOP", <<"b", "a">>, 2, FALSE, 1)},
    {Push("b", TRUE), On("ZADD", "a")}>>,
  \* streams and groups
  <<{Read("XREADGROUP", "a", 0, 0)},
    {On("XADD", "a"), On("XGROUP", "a"), On("DEL", "a")},
    {Read("XREAD", "a", 0, 1), Read("XREADGROUP", "a", 0, 1)}>>}
=============================================================================
