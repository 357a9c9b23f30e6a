------------------------------- MODULE Blogs --------------------------------
(***************************************************************************)
(* An article of the blog (src/blogs): it is written, edited, restored to  *)
(* an earlier version, approved or rejected, and removed; the list of what *)
(* is published is kept in a cache.                                        *)
(*                                                                         *)
(* Every change writes the article, then a version of it, then clears the  *)
(* cache, with an await after each.                                        *)
(*                                                                         *)
(* Left out: slugs and images, dates of publication in the future, the     *)
(* pages of the list, the second cache in front of the controller and the  *)
(* revalidation of the site, which nothing waits for.                      *)
(***************************************************************************)
EXTENDS Integers, Sequences

CONSTANTS
    Editors,        \* requests at work at one time
    Texts,          \* what an article may say
    MaxChanges,     \* bound on requests that change the article
    MaxLists,       \* bound on lists read for the cache
    MaxBreaks       \* bound on requests that stop half-way

ASSUME BlogsAssumption ==
    MaxChanges \in Nat /\ MaxLists \in Nat /\ MaxBreaks \in Nat

CONSTANT NoText     \* of no text
ASSUME NoTextAssumption == NoText \notin Texts

VARIABLES
    blog,           \* the row of the article
    versions,       \* its rows in blog_versions, in the order of their dates
    shelf,          \* the list in the cache
    draft,          \* the requests
    approved,       \* history: an admin published the article as it stands
    jumbled,        \* history: two changes crossed, or one stopped half-way
    changes, lists, breaks

blogsVars == <<blog, versions, shelf, draft, approved, jumbled, changes, lists, breaks>>

\* One person of each role.
Writers == {"admin", "tutor", "student"}
BlogStatus == {"PUBLISHED", "PENDING", "REJECTED"}

NoBlog == [exists |-> FALSE, status |-> "PENDING", text |-> NoText, author |-> "admin"]
EmptyShelf == [kept |-> FALSE, shows |-> NoText, old |-> FALSE]

\* Who asks, and for which status ("same" to keep it); old: the article was
\* changed after the list was read.
Draft == [pc: {"idle", "write", "version", "delete", "clear", "keep"},
          who: Writers, text: Texts \union {NoText},
          to: BlogStatus \union {"same"}, old: BOOLEAN]
NoDraft == [pc |-> "idle", who |-> "admin", text |-> NoText, to |-> "same", old |-> FALSE]

BlogsTypeOK ==
    /\ blog \in [exists: BOOLEAN, status: BlogStatus, text: Texts \union {NoText},
                 author: Writers]
    /\ versions \in Seq(Texts)
    /\ shelf \in [kept: BOOLEAN, shows: Texts \union {NoText}, old: BOOLEAN]
    /\ draft \in [Editors -> Draft]
    /\ approved \in BOOLEAN /\ jumbled \in BOOLEAN
    /\ changes \in 0..MaxChanges /\ lists \in 0..MaxLists /\ breaks \in 0..MaxBreaks

BlogsInit ==
    /\ blog = NoBlog
    /\ versions = <<>>
    /\ shelf = EmptyShelf
    /\ draft = [e \in Editors |-> NoDraft]
    /\ approved = FALSE /\ jumbled = FALSE
    /\ changes = 0 /\ lists = 0 /\ breaks = 0

-----------------------------------------------------------------------------

AtRest(e) == draft[e].pc = "idle"
DraftIs(e, rec) == draft' = [draft EXCEPT ![e] = rec]
OneChange == changes < MaxChanges /\ changes' = changes + 1

\* A list that has been read and not yet kept is older than this change; a
\* change that is not yet in the versions has been crossed.
Outdated(e, rec) ==
    draft' = [d \in Editors |->
                 IF d = e THEN rec
                 ELSE [draft[d] EXCEPT !.old = draft[d].pc = "keep"]]
Pending(e) == \E d \in Editors \ {e} : draft[d].pc = "version"

(* create: an admin's article is published at once.  The model follows one. *)
CreateBlog(e, w, x) ==
    /\ AtRest(e) /\ changes = 0
    /\ OneChange
    /\ blog' = [exists |-> TRUE, text |-> x, author |-> w,
                status |-> IF w = "admin" THEN "PUBLISHED" ELSE "PENDING"]
    /\ approved' = (w = "admin")
    /\ Outdated(e, [NoDraft EXCEPT !.pc = "version", !.text = x])
    /\ UNCHANGED <<versions, shelf, jumbled, lists, breaks>>

\* findOneById: an article that is not published is for an admin and its author.
MayOpen(w) == blog.status = "PUBLISHED" \/ w = "admin" \/ w = blog.author

(* update *)

\* Mutant: what is asked for is granted.
GrantedAsAsked(w, s) == s

\* A tutor cannot publish.
Granted(w, s) == IF w = "tutor" /\ s = "PUBLISHED" THEN "PENDING" ELSE s

OpensEdit(e, w, x, s) ==
    /\ AtRest(e) /\ blog.exists
    /\ MayOpen(w)
    /\ w = "admin" \/ (w = "tutor" /\ blog.author = "tutor")
    /\ OneChange
    /\ DraftIs(e, [NoDraft EXCEPT !.pc = "write", !.who = w, !.text = x,
                                  !.to = Granted(w, s)])
    /\ UNCHANGED <<blog, versions, shelf, approved, jumbled, lists, breaks>>

(* restoreVersion: the controller looks the article up as a stranger would *)
OpensRestore(e, w, v) ==
    /\ AtRest(e) /\ blog.exists
    /\ blog.status = "PUBLISHED"
    /\ w = "tutor" => blog.author = "tutor"
    /\ OneChange
    /\ DraftIs(e, [NoDraft EXCEPT !.pc = "write", !.who = w,
                                  !.text = versions[v]])
    /\ UNCHANGED <<blog, versions, shelf, approved, jumbled, lists, breaks>>

\* What the article says after a write: no text given keeps it.
Says(x) == IF x = NoText THEN blog.text ELSE x
Stands(s) == IF s = "same" THEN blog.status ELSE s

WritesBlog(e) ==
    /\ draft[e].pc = "write"
    /\ IF ~ blog.exists THEN DraftIs(e, NoDraft) /\ UNCHANGED <<blog, approved, jumbled>>
       ELSE /\ blog' = [blog EXCEPT !.text = Says(draft[e].text),
                                    !.status = Stands(draft[e].to)]
            /\ approved' = (blog'.status = "PUBLISHED"
                            /\ (approved \/ (draft[e].to = "PUBLISHED"
                                             /\ draft[e].who = "admin")))
            /\ jumbled' = (jumbled \/ Pending(e))
            /\ Outdated(e, [draft[e] EXCEPT !.pc = "version", !.text = blog'.text,
                                            !.who = "admin", !.to = "same"])
    /\ UNCHANGED <<versions, shelf, changes, lists, breaks>>

(* updateStatus, for an admin: a version only of a rejection with a reason *)
SetsStatus(e, s, reason) ==
    /\ AtRest(e) /\ blog.exists
    /\ OneChange
    /\ blog' = [blog EXCEPT !.status = s]
    /\ approved' = (s = "PUBLISHED")
    /\ Outdated(e, [NoDraft EXCEPT !.pc = IF s = "REJECTED" /\ reason THEN "version"
                                          ELSE "clear",
                                   !.text = blog.text])
    /\ UNCHANGED <<versions, shelf, jumbled, lists, breaks>>

\* A version of an article that is gone is refused by the database.
AddsVersion(e) ==
    /\ draft[e].pc = "version"
    /\ IF blog.exists
       THEN /\ versions' = Append(versions, draft[e].text)
            /\ DraftIs(e, [NoDraft EXCEPT !.pc = "clear"])
       ELSE DraftIs(e, NoDraft) /\ UNCHANGED versions
    /\ UNCHANGED <<blog, shelf, approved, jumbled, changes, lists, breaks>>

(* remove, for an admin: the versions, then the article *)
DropsVersions(e) ==
    /\ AtRest(e) /\ blog.exists
    /\ OneChange
    /\ versions' = <<>>
    /\ DraftIs(e, [NoDraft EXCEPT !.pc = "delete"])
    /\ UNCHANGED <<blog, shelf, approved, jumbled, lists, breaks>>

DropsBlog(e) ==
    /\ draft[e].pc = "delete"
    /\ IF blog.exists
       THEN /\ blog' = NoBlog /\ versions' = <<>> /\ approved' = FALSE
            /\ Outdated(e, [NoDraft EXCEPT !.pc = "clear"])
       ELSE DraftIs(e, NoDraft) /\ UNCHANGED <<blog, versions, approved>>
    /\ UNCHANGED <<shelf, jumbled, changes, lists, breaks>>

\* The keys are found by asking the store for them; where the store has no such
\* call, or it fails, the page stays until it expires.
ClearsCaches(e, found) ==
    /\ draft[e].pc = "clear"
    /\ shelf' = IF found THEN EmptyShelf ELSE [shelf EXCEPT !.old = shelf.kept]
    /\ DraftIs(e, NoDraft)
    /\ UNCHANGED <<blog, versions, approved, jumbled, changes, lists, breaks>>

-----------------------------------------------------------------------------
(* findAllPublished *)

\* What the list shows of the article.
Shown == IF blog.exists /\ blog.status = "PUBLISHED" THEN blog.text ELSE NoText

ReadsList(e) ==
    /\ AtRest(e) /\ ~ shelf.kept
    /\ lists < MaxLists /\ lists' = lists + 1
    /\ DraftIs(e, [NoDraft EXCEPT !.pc = "keep", !.text = Shown])
    /\ UNCHANGED <<blog, versions, shelf, approved, jumbled, changes, breaks>>

\* It may replace a list that another request has kept meanwhile.
KeepsList(e) ==
    /\ draft[e].pc = "keep"
    /\ shelf' = [kept |-> TRUE, shows |-> draft[e].text, old |-> draft[e].old]
    /\ DraftIs(e, NoDraft)
    /\ UNCHANGED <<blog, versions, approved, jumbled, changes, lists, breaks>>

\* After five minutes.
ListExpires ==
    /\ shelf.kept
    /\ shelf' = EmptyShelf
    /\ UNCHANGED <<blog, versions, draft, approved, jumbled, changes, lists, breaks>>

\* A write fails or the process stops between two writes of a request.
Breaks(e) ==
    /\ draft[e].pc \in {"version", "delete", "clear"}
    /\ breaks < MaxBreaks /\ breaks' = breaks + 1
    /\ DraftIs(e, NoDraft)
    /\ shelf' = [shelf EXCEPT !.old = shelf.kept]
    /\ jumbled' = (jumbled \/ draft[e].pc # "clear")
    /\ UNCHANGED <<blog, versions, approved, changes, lists>>

BlogsNext ==
    \/ \E e \in Editors, w \in Writers, x \in Texts : CreateBlog(e, w, x)
    \/ \E e \in Editors, w \in Writers, x \in Texts \union {NoText},
          s \in BlogStatus \union {"same"} : OpensEdit(e, w, x, s)
    \/ \E e \in Editors, w \in Writers, v \in DOMAIN versions : OpensRestore(e, w, v)
    \/ \E e \in Editors, s \in BlogStatus, reason \in BOOLEAN : SetsStatus(e, s, reason)
    \/ \E e \in Editors, found \in BOOLEAN : ClearsCaches(e, found)
    \/ \E e \in Editors : WritesBlog(e) \/ AddsVersion(e) \/ DropsVersions(e)
                          \/ DropsBlog(e) \/ ReadsList(e) \/ KeepsList(e) \/ Breaks(e)
    \/ ListExpires

BlogsSpec == BlogsInit /\ [][BlogsNext]_blogsVars

-----------------------------------------------------------------------------

NoneWriting == \A e \in Editors : draft[e].pc \in {"idle", "keep"}

\* The newest version is what the article says.
NewestIsLive ==
    NoneWriting /\ blog.exists /\ ~ jumbled
      => versions # <<>> /\ versions[Len(versions)] = blog.text

\* A list kept since the last change shows what is published.
ListIsCurrent == NoneWriting /\ shelf.kept /\ ~ shelf.old => shelf.shows = Shown

\* What is published, an admin has published.
PublishedByAdmin == blog.exists /\ blog.status = "PUBLISHED" => approved

\* The article, its versions and the public list agree once the requests are
\* done, unless two changes crossed, one stopped half-way, or the cache could
\* not be cleared; and nothing is published but by an admin, whatever edits,
\* restorations and rejections overlap.
BlogIsKept == NewestIsLive /\ ListIsCurrent /\ PublishedByAdmin

=============================================================================
