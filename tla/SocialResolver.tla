----------------------------- MODULE SocialResolver -----------------------------
(***************************************************************************)
(* social/contracts/VaultSocialResolver.sol: profiles, posts, comments and *)
(* votes as attestations of EAS, beside the statement registry they talk   *)
(* about, with the two readers of that history: the contract's own state   *)
(* and the snapshot sdk/social.mjs rebuilds from the log.                  *)
(*                                                                         *)
(* EAS stores an attestation and calls the resolver in one transaction; a  *)
(* refusal undoes both.  A uid is the attestation's place in the log, 0    *)
(* the zero word.  A text is known by the attestation that first held it.  *)
(* Lengths of texts are left out.  A batch of attestations is modelled by  *)
(* its members one by one.                                                 *)
(***************************************************************************)
EXTENDS StatementRegistry, Integers, FiniteSetsExt

CONSTANTS Users,
          MaxAttestations  \* bound: attestations accepted

ASSUME SocialAssumption == None \notin Users /\ IsFiniteSet(Users)

VARIABLES
  attestations,   \* what EAS has stored, in order
  latestProfile,  \* latestProfile[user]
  entries,        \* entries[root]
  votes,          \* votes[root][user]
  scores          \* scores[root]

socialVars == <<attestations, latestProfile, entries, votes, scores>>

Uids == DOMAIN attestations
Topics == DOMAIN statements \cup {None, BaseId(None, None)}

Post == 1
Comment == 2

NoVote == [uid |-> 0, value |-> 0]

(* An attestation before its fields are filled in; "seen" is history: what *)
(* the author of a revision had on the screen, 0 if that is not known.     *)
Blank == [schema |-> "", attester |-> None, kind |-> 0, statement |-> None, root |-> 0,
          parent |-> 0, previous |-> 0, deleted |-> FALSE, text |-> 0, value |-> 0, seen |-> 0]

Store(a) ==
  /\ Len(attestations) < MaxAttestations
  /\ attestations' =
       Append(attestations, IF a.text = 0 THEN [a EXCEPT !.text = Len(attestations) + 1] ELSE a)

Uid == Len(attestations) + 1

-----------------------------------------------------------------------------
(* onAttest *)

ReviseProfile(a) ==
  /\ a.schema = "profile"
  /\ latestProfile[a.attester] = a.previous
  /\ Store(a)
  /\ latestProfile' = [latestProfile EXCEPT ![a.attester] = Uid]
  /\ UNCHANGED <<entries, votes, scores>>

PostContext(uid) == <<"post", uid>>
StatementContext(id) == <<"statement", id>>

(* Mutant: a reply may name another statement than its parent's. *)
Context_AnyStatement(a) ==
  CASE a.kind = Post -> IF a.parent = 0 /\ a.statement = None THEN PostContext(Uid) ELSE None
    [] a.kind = Comment /\ a.parent # 0 ->
         IF a.parent \in DOMAIN entries /\ ~entries[a.parent].deleted
         THEN entries[a.parent].context ELSE None
    [] a.kind = Comment /\ a.parent = 0 ->
         IF a.statement # None /\ Known(a.statement)
         THEN StatementContext(a.statement) ELSE None

(* The discussion a new entry belongs to: its own if it is a post, else    *)
(* its parent's or its statement's; None when it may not be made.          *)
Context(a) ==
  CASE a.kind = Post -> IF a.parent = 0 /\ a.statement = None THEN PostContext(Uid) ELSE None
    [] a.kind = Comment /\ a.parent # 0 ->
         IF /\ a.parent \in DOMAIN entries
            /\ ~entries[a.parent].deleted
            /\ entries[a.parent].statement = a.statement
         THEN entries[a.parent].context ELSE None
    [] a.kind = Comment /\ a.parent = 0 ->
         IF a.statement # None /\ Known(a.statement)
         THEN StatementContext(a.statement) ELSE None

CreateEntry(a) ==
  /\ a.schema = "entry" /\ a.root = 0
  /\ a.kind \in {Post, Comment}
  /\ a.previous = 0 /\ ~a.deleted
  /\ Context(a) # None
  /\ Store(a)
  /\ entries' = Extend(entries, Uid,
       [author |-> a.attester, latest |-> Uid, statement |-> a.statement, parent |-> a.parent,
        context |-> Context(a), kind |-> a.kind, deleted |-> FALSE])
  /\ votes' = Extend(votes, Uid, [u \in Users |-> NoVote])
  /\ scores' = Extend(scores, Uid, 0)
  /\ UNCHANGED latestProfile

SameEntry(e, a) == e.kind = a.kind /\ e.statement = a.statement /\ e.parent = a.parent

ReviseEntry(a) ==
  /\ a.schema = "entry" /\ a.root \in DOMAIN entries
  /\ entries[a.root].author = a.attester
  /\ entries[a.root].latest = a.previous
  /\ SameEntry(entries[a.root], a)
  /\ Store(a)
  /\ entries' = [entries EXCEPT ![a.root].latest = Uid, ![a.root].deleted = a.deleted]
  /\ UNCHANGED <<latestProfile, votes, scores>>

ReviseVote(a) ==
  LET old == votes[a.root][a.attester]
  IN /\ a.schema = "vote" /\ a.root \in DOMAIN entries
     /\ a.value \in -1..1
     /\ ~entries[a.root].deleted \/ a.value = 0
     /\ entries[a.root].author # a.attester
     /\ old.uid = a.previous
     /\ old.value # a.value
     /\ Store(a)
     /\ scores' = [scores EXCEPT ![a.root] = @ + a.value - old.value]
     /\ votes' = [votes EXCEPT ![a.root][a.attester] = [uid |-> Uid, value |-> a.value]]
     /\ UNCHANGED <<latestProfile, entries>>

Attest(a) == ReviseProfile(a) \/ CreateEntry(a) \/ ReviseEntry(a) \/ ReviseVote(a)

(* Any wallet may call EAS with anything of the schemas' types.            *)
DirectAttest(u) ==
  \/ \E previous \in 0..Len(attestations) :
       Attest([Blank EXCEPT !.schema = "profile", !.attester = u, !.previous = previous])
  \/ \E kind \in {Post, Comment}, topic \in Topics, parent \in 0..Len(attestations) :
       Attest([Blank EXCEPT !.schema = "entry", !.attester = u, !.kind = kind,
                            !.statement = topic, !.parent = parent])
  \/ \E root \in DOMAIN entries, topic \in Topics, previous \in Uids, hide \in BOOLEAN :
       Attest([Blank EXCEPT !.schema = "entry", !.attester = u, !.root = root,
                            !.kind = entries[root].kind, !.statement = topic,
                            !.parent = entries[root].parent, !.previous = previous,
                            !.deleted = hide])
  \/ \E root \in DOMAIN entries, previous \in 0..Len(attestations), value \in -2..2 :
       Attest([Blank EXCEPT !.schema = "vote", !.attester = u, !.root = root,
                            !.previous = previous, !.value = value])

SocialInit ==
  /\ attestations = << >>
  /\ latestProfile = [u \in Users |-> 0]
  /\ entries = [root \in {} |-> 0]
  /\ votes = [root \in {} |-> 0]
  /\ scores = [root \in {} |-> 0]

-----------------------------------------------------------------------------
(* snapshot, socialThreads, comments, blog and blogThread of sdk/social.mjs, *)
(* of the first n attestations: the ones up to a block.                      *)

RootOf(uid) == IF attestations[uid].root = 0 THEN uid ELSE attestations[uid].root

Revisions(root, n) ==
  {uid \in 1..n : attestations[uid].schema = "entry" /\ RootOf(uid) = root}

Roots(n) == {uid \in 1..n : attestations[uid].schema = "entry" /\ attestations[uid].root = 0}

VotesOf(root, u, n) ==
  {uid \in 1..n : /\ attestations[uid].schema = "vote"
                  /\ attestations[uid].root = root /\ attestations[uid].attester = u}

VoteValue(root, u, n) ==
  IF VotesOf(root, u, n) = {} THEN 0 ELSE attestations[Max(VotesOf(root, u, n))].value

(* The row of an entry: each revision replaces what the one before it said. *)
Row(root, n) ==
  LET last == attestations[Max(Revisions(root, n))]
  IN [uid |-> Max(Revisions(root, n)), author |-> last.attester, kind |-> last.kind,
      statement |-> last.statement, parent |-> last.parent, deleted |-> last.deleted,
      text |-> last.text]

Score(root, n) == SumFunctionOnSet([u \in Users |-> VoteValue(root, u, n)], Users)

(* Rows that hang below one of "tops", replies after their parents. *)
Below(tops, rows, n) ==
  LET parent == [r \in rows |-> Row(r, n).parent]
      in[r \in rows] == r \in tops \/ (parent[r] \in rows /\ in[parent[r]])
  IN {r \in rows : in[r]}

Comments(topic, n) ==
  LET rows == {r \in Roots(n) : LET row == Row(r, n)
                                 IN row.kind = Comment /\ row.statement = topic}
  IN Below({r \in rows : Row(r, n).parent = 0}, rows, n)

Blog(u, n) ==
  {r \in Roots(n) : LET row == Row(r, n) IN row.kind = Post /\ row.author = u}

BlogThread(post, n) ==
  LET rows == {r \in Roots(n) : Row(r, n).kind = Comment}
  IN Below({r \in rows : Row(r, n).parent = post}, rows, n)

-----------------------------------------------------------------------------
(* Properties *)

(* The entries of the contract are those a reader rebuilds from the log,   *)
(* with the same author, last revision and visibility, whatever was        *)
(* revised, hidden and restored in between.                                *)
EntriesAreRebuilt ==
  LET n == Len(attestations)
  IN /\ DOMAIN entries = Roots(n)
     /\ \A root \in Roots(n) :
          LET row == Row(root, n)
              e == entries[root]
          IN /\ <<e.latest, e.author, e.deleted>> = <<row.uid, row.author, row.deleted>>
             /\ <<e.kind, e.statement, e.parent>> = <<row.kind, row.statement, row.parent>>

(* So are the profiles and the scores: a score is the sum of the votes     *)
(* that stand.                                                             *)
ScoresAreRebuilt ==
  LET n == Len(attestations)
  IN /\ \A root \in Roots(n) :
          /\ scores[root] = Score(root, n)
          /\ \A u \in Users : votes[root][u].value = VoteValue(root, u, n)
     /\ \A u \in Users :
          latestProfile[u] = Max({0} \cup {uid \in 1..n : /\ attestations[uid].schema = "profile"
                                                          /\ attestations[uid].attester = u})

(* Nothing said is lost: every comment is shown below its statement or     *)
(* below one post of a blog, the one the contract says it belongs to,      *)
(* however deep it lies and whatever above it was hidden.                  *)
NothingIsLost ==
  LET n == Len(attestations)
      postsMade == {root \in Roots(n) : Row(root, n).kind = Post}
  IN \A root \in Roots(n) \ postsMade :
       LET context == entries[root].context
           statement == Row(root, n).statement
       IN IF statement # None
          THEN context = StatementContext(statement) /\ root \in Comments(statement, n)
          ELSE /\ context \in {PostContext(post) : post \in postsMade}
               /\ \A post \in postsMade :
                    root \in BlogThread(post, n) <=> context = PostContext(post)

(* The contract and its readers agree, and nothing said is lost.           *)
DiscussionsAreWhole == EntriesAreRebuilt /\ ScoresAreRebuilt /\ NothingIsLost
=============================================================================
