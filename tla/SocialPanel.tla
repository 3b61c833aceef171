------------------------------ MODULE SocialPanel ------------------------------
(***************************************************************************)
(* A discussion on the page (web/SocialPanel.svelte, SocialEntry.svelte)   *)
(* writing through the SDK (sdk/social.mjs), among other wallets, tabs and *)
(* scripts that attest directly.                                           *)
(*                                                                         *)
(* The panel is one thread.  Every read or transaction it starts carries   *)
(* the epoch of its start; instead of the epoch's number it carries        *)
(* whether that epoch is still the panel's.  What a reader sees of the     *)
(* chain is how much of the log it has read; a snapshot read while the     *)
(* log grows is of the block it asked for first.  The SDK's cache is left  *)
(* out: it is keyed by the block's hash and holds what a read would give.  *)
(***************************************************************************)
EXTENDS SocialResolver

CONSTANTS Visitors,  \* bound: accounts the page is used with, None for none
          Bloggers,  \* bound: users whose blog is visited
          MaxCalls,  \* bound: refreshes and transactions under way at once
          MaxShared, \* bound: attestations while the page is used,
          MaxOthers  \* bound: and how many of the first of them others may make

ASSUME PanelAssumption == Visitors \subseteq Users \cup {None}

VARIABLES
  account,   \* the connected account, None without one
  page,      \* the statement discussed, or the owner of the blog shown
  selected,  \* the post whose discussion is open, 0 if none
  composer,  \* what the text field is for
  posts,     \* the posts shown: whose blog, and read from how much of the log
  rows,      \* the comments shown: of what, and read from how much of the log
  busy,
  loading,        \* something is being read, or was when its epoch ended
  reads,     \* refreshes under way
  acts       \* transactions under way

screenVars == <<account, page, selected, composer, posts, rows, busy>>
panelVars == <<screenVars, loading, reads, acts>>

Pages == DOMAIN statements \cup Bloggers
NoPosts == [page |-> None, at |-> 0]
NoRows == [page |-> None, post |-> 0, at |-> 0]
NewText == [for |-> "new", root |-> 0, uid |-> 0]

OnBlog == page \in Users

(* What is displayed: an entry as it was when the list it is in was read.  *)
DisplayedPosts == IF posts.page \in Users THEN Blog(posts.page, posts.at) ELSE {}
DisplayedRows ==
  CASE rows.page = None -> {}
    [] rows.page # None /\ rows.post # 0 -> BlogThread(rows.post, rows.at)
    [] rows.page # None /\ rows.post = 0 -> Comments(rows.page, rows.at)
Displayed == DisplayedPosts \cup DisplayedRows
Shown(root) == Row(root, IF root \in DisplayedPosts THEN posts.at ELSE rows.at)
ShownVote(root) ==
  VoteValue(root, account, IF root \in DisplayedPosts THEN posts.at ELSE rows.at)

-----------------------------------------------------------------------------
(* refresh *)

(* A new epoch.  What a late refresh brings is not shown; a transaction    *)
(* that is not with the wallet yet is not sent, and nobody waits for the   *)
(* receipt of one that was.                                                *)
LateReads == {[r EXCEPT !.fresh = FALSE, !.ends = FALSE, !.from = 0] : r \in reads}
LateActs == {[t EXCEPT !.fresh = FALSE] : t \in {u \in acts : u.step = "wallet"}}

Begin(earlier, transactions, of, post, ends) ==
  /\ Cardinality(earlier) + Cardinality(transactions) < MaxCalls
  /\ loading' = TRUE
  /\ acts' = transactions
  /\ reads' = earlier \cup
       {[fresh |-> TRUE, page |-> of, post |-> post, from |-> Len(attestations), ends |-> ends]}

(* The button that reads the chain again is off while something is read or *)
(* sent; the choice of an order for a discussion that is shown is not.     *)
Reread ==
  /\ (~busy /\ ~loading) \/ ~OnBlog \/ selected # 0
  /\ Begin(reads, acts, page, selected, FALSE)
  /\ UNCHANGED screenVars

Timely(r) == r.fresh /\ r.post = selected

(* The posts and then the comments are read, each from a snapshot of what  *)
(* was the latest block some time since the refresh began.                 *)
Show(r) ==
  /\ IF Timely(r)
     THEN \E n \in r.from .. Len(attestations) : \E m \in n .. Len(attestations) :
            /\ posts' = IF r.page \in Users THEN [page |-> r.page, at |-> n] ELSE NoPosts
            /\ rows' = IF r.page \in Users /\ r.post = 0 THEN NoRows
                       ELSE [page |-> r.page, post |-> r.post, at |-> m]
     ELSE UNCHANGED <<posts, rows>>
  /\ reads' = reads \ {r}
  /\ loading' = (loading /\ ~r.fresh)
  /\ busy' = (busy /\ ~(r.ends /\ r.fresh))
  /\ UNCHANGED <<account, page, selected, composer, acts>>

ReadFails(r) ==
  /\ reads' = reads \ {r}
  /\ loading' = (loading /\ ~r.fresh)
  /\ busy' = (busy /\ ~(r.ends /\ r.fresh))
  /\ UNCHANGED <<account, page, selected, composer, posts, rows, acts>>

-----------------------------------------------------------------------------
(* The page around the panel, and its controls.  Each starts a new epoch.  *)

(* Another account or another page, or the panel is left and opened again: *)
(* everything of the old one is dropped.                                   *)
ChangeContext(a, p) ==
  /\ account' = a /\ page' = p
  /\ selected' = 0 /\ composer' = NewText
  /\ posts' = NoPosts /\ rows' = NoRows
  /\ busy' = FALSE
  /\ Begin(LateReads, LateActs, p, 0, FALSE)

ChooseBlog(root) ==
  /\ ~busy /\ root \in DisplayedPosts
  /\ selected' = root /\ composer' = NewText
  /\ Begin(LateReads, LateActs, page, root, FALSE)
  /\ UNCHANGED <<account, page, posts, rows, busy>>

Own(root) == account = Shown(root).author

Edit(root) ==
  /\ ~busy /\ root \in Displayed /\ Own(root)
  /\ composer' = [for |-> "edit", root |-> root, uid |-> Shown(root).uid]
  /\ reads' = LateReads /\ acts' = LateActs
  /\ UNCHANGED <<account, page, selected, posts, rows, busy, loading>>

Respond(root) ==
  LET post == IF OnBlog /\ Shown(root).kind = Post THEN root ELSE selected
  IN /\ ~busy /\ root \in Displayed /\ ~Shown(root).deleted
     /\ composer' = [for |-> "reply", root |-> root, uid |-> 0]
     /\ selected' = post
     /\ Begin(LateReads, LateActs, page, post, FALSE)
     /\ UNCHANGED <<account, page, posts, rows, busy>>

NewBlog ==
  /\ ~busy /\ OnBlog /\ account = page
  /\ selected' = 0 /\ composer' = NewText /\ rows' = NoRows
  /\ reads' = LateReads /\ acts' = LateActs
  /\ UNCHANGED <<account, page, posts, busy, loading>>

(* The parent of a new text: the entry replied to, else the open post.     *)
Parent == IF composer.for = "reply" THEN composer.root ELSE selected

(* The text field is shown: it edits an entry, or what it would hang below *)
(* is not shown hidden, and a blog's own posts are written by its owner.   *)
CanCompose ==
  \/ composer.for = "edit"
  \/ /\ Parent # 0 /\ Parent \in Displayed => ~Shown(Parent).deleted
     /\ OnBlog /\ Parent = 0 => account = page

CancelEditor ==
  /\ ~busy /\ composer # NewText /\ CanCompose
  /\ composer' = NewText
  /\ reads' = LateReads /\ acts' = LateActs
  /\ UNCHANGED <<account, page, selected, posts, rows, busy, loading>>

-----------------------------------------------------------------------------
(* act: a transaction through the SDK *)

Act(want) ==
  /\ ~busy /\ account # None
  /\ Cardinality(reads) + Cardinality(acts) < MaxCalls
  /\ busy' = TRUE
  /\ acts' = acts \cup {[fresh |-> TRUE, step |-> "read", attestation |-> want]}
  /\ UNCHANGED <<account, page, selected, composer, posts, rows, loading, reads>>

By(schema) == [Blank EXCEPT !.schema = schema, !.attester = account]

SubmitEdit ==
  /\ composer.for = "edit"
  /\ Act([By("entry") EXCEPT !.root = composer.root, !.previous = composer.uid,
                             !.seen = composer.uid])

SubmitNew ==
  LET own == OnBlog /\ Parent = 0
  IN /\ composer.for # "edit" /\ CanCompose
     /\ Act([By("entry") EXCEPT !.kind = IF own THEN Post ELSE Comment,
                                !.statement = IF OnBlog THEN None ELSE page,
                                !.parent = Parent])

Vote(root, value) ==
  /\ root \in Displayed /\ account # None /\ ~Own(root)
  /\ Shown(root).deleted => ShownVote(root) = value
  /\ Act([By("vote") EXCEPT !.root = root,
                            !.value = IF ShownVote(root) = value THEN 0 ELSE value])

Hide(root) ==
  /\ root \in Displayed /\ Own(root) /\ ~Shown(root).deleted
  /\ Act([By("entry") EXCEPT !.root = root, !.previous = Shown(root).uid, !.deleted = TRUE,
                             !.seen = Shown(root).uid])

Replace(t, u) == acts' = (acts \ {t}) \cup {u}

(* editEntry: the entry as it stands gives the fields the caller did not.  *)
(* Mutant: the revision to replace is looked up, too.                      *)
Revision_Latest(a) ==
  LET e == entries[a.root]
  IN [a EXCEPT !.kind = e.kind, !.statement = e.statement, !.parent = e.parent,
               !.previous = e.latest,
               !.text = IF a.deleted THEN attestations[e.latest].text ELSE 0]

Revision(a) ==
  LET e == entries[a.root]
  IN [a EXCEPT !.kind = e.kind, !.statement = e.statement, !.parent = e.parent,
               !.text = IF a.deleted THEN attestations[e.latest].text ELSE 0]

(* What editEntry and vote read of the chain, then guard: nothing is sent  *)
(* for a context that is gone.                                             *)
SendAct(t) ==
  LET a == t.attestation
  IN /\ t.step = "read"
     /\ Replace(t, [t EXCEPT !.step = "wallet", !.attestation =
          CASE a.schema = "vote" -> [a EXCEPT !.previous = votes[a.root][a.attester].uid]
            [] a.schema = "entry" /\ a.root # 0 -> Revision(a)
            [] OTHER -> a])
     /\ UNCHANGED <<screenVars, loading, reads>>

(* The wallet may take its time; then the transaction is mined. *)
Mine(t) ==
  /\ t.step = "wallet"
  /\ Attest(t.attestation)
  /\ IF t.fresh THEN Replace(t, [t EXCEPT !.step = "receipt", !.attestation = Blank])
                ELSE acts' = acts \ {t}
  /\ UNCHANGED <<screenVars, loading, reads>>

Receipt(t) ==
  /\ t.step = "receipt"
  /\ composer' = NewText
  /\ Begin(reads, acts \ {t}, page, selected, TRUE)
  /\ UNCHANGED <<account, page, selected, posts, rows, busy>>

(* Refused by the guard, the wallet or the resolver, or lost on the way.   *)
ActFails(t) ==
  /\ acts' = acts \ {t}
  /\ busy' = (busy /\ ~t.fresh)
  /\ UNCHANGED <<account, page, selected, composer, posts, rows, loading, reads>>

-----------------------------------------------------------------------------
(* The page whose first read has failed. *)
PanelInit ==
  /\ account = None
  /\ page \in Bloggers
  /\ selected = 0 /\ composer = NewText
  /\ posts = NoPosts /\ rows = NoRows
  /\ busy = FALSE /\ loading = FALSE
  /\ reads = {} /\ acts = {}

Page ==
  \/ Reread \/ NewBlog \/ CancelEditor \/ SubmitEdit \/ SubmitNew
  \/ \E r \in reads : Show(r) \/ ReadFails(r)
  \/ \E a \in Visitors, p \in Pages : ChangeContext(a, p)
  \/ \E root \in Displayed :
       \/ ChooseBlog(root) \/ Edit(root) \/ Respond(root) \/ Hide(root)
       \/ \E value \in {-1, 1} : Vote(root, value)
  \/ \E t \in acts : SendAct(t) \/ Receipt(t) \/ ActFails(t)

Discussion ==
  \/ /\ Len(attestations) < MaxShared
     /\ Page
     /\ UNCHANGED socialVars
  \/ /\ Len(attestations) < MaxShared
     /\ \E t \in acts : Mine(t)
  \/ /\ PanelInit \/ Len(attestations) < MaxOthers
     /\ \E u \in Users : DirectAttest(u)
     /\ UNCHANGED panelVars

(* The registry goes its own way beside the discussions. *)
Together ==
  \/ Next /\ UNCHANGED <<socialVars, panelVars>>
  \/ Discussion /\ UNCHANGED vars

PanelSpec ==
  /\ Init /\ SocialInit /\ PanelInit
  /\ [][Together]_<<vars, socialVars, panelVars>>

-----------------------------------------------------------------------------
(* Properties *)

(* A revision made on the page replaces exactly the revision its author    *)
(* was shown, however many others were made meanwhile, and hiding an entry *)
(* keeps the text that was shown.                                          *)
RevisionsFollowTheScreen ==
  \A uid \in Uids :
    LET a == attestations[uid]
    IN a.seen # 0 =>
         /\ a.seen = Max({r \in Revisions(a.root, uid) : r # uid})
         /\ a.deleted => a.text = attestations[a.seen].text

(* What is listed belongs to the page it is listed on, however late it was *)
(* read, and the post whose discussion is open is among the posts listed:  *)
(* otherwise a reply to it would become a post of its own.                 *)
ListsAreOfThePage ==
  /\ posts.page \in {None, page} /\ rows.page \in {None, page}
  /\ selected # 0 => selected \in DisplayedPosts

(* However often the page is left and entered while the wallet hesitates,  *)
(* the panel works on one transaction at a time.                           *)
OneAtATime ==
  /\ Cardinality({t \in acts : t.fresh}) <= 1
  /\ (\E t \in acts : t.fresh) => busy

(* The three together: what the page shows is of its subject, one thing is *)
(* done at a time, and what is written follows what was shown.             *)
PanelIsTrue == RevisionsFollowTheScreen /\ ListsAreOfThePage /\ OneAtATime
=============================================================================
