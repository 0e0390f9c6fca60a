-------------------------------- MODULE Gallery --------------------------------
(***************************************************************************)
(* community/gallery.py: a student shows a submission that passed.  The       *)
(* submission is checked in one transaction and the project stored in        *)
(* another, and a project is looked up before it is taken down, so requests *)
(* of one student overlap; one that dies between leaves nothing behind.      *)
(* Submissions and their verdicts are written by the grading queue; a       *)
(* verdict never changes.                                                  *)
(***************************************************************************)
EXTENDS Integers, Sequences, FiniteSets

CONSTANTS
  Builder,          \* students
  Unit,             \* units
  GallerySeat,      \* request threads
  Most,             \* most projects on a page
  MaxBuilds,        \* bounds the submissions
  MaxShows          \* bounds the gallery events

ASSUME GalleryAssumption == Most \in Nat \ {0} /\ MaxBuilds \in Nat /\ MaxShows \in Nat

VARIABLES
  builds,         \* submissions: student, unit and verdict, "none" if it has none
  projects,       \* gallery_projects in the order of their ids
  shown,          \* gallery.published and gallery.unpublished events
  gallerySeat     \* the request of each thread

galleryVars == <<builds, projects, shown, gallerySeat>>

Open == [op |-> "free"]

GalleryInit ==
  /\ builds = <<>> /\ projects = <<>> /\ shown = <<>>
  /\ gallerySeat = [d \in GallerySeat |-> Open]

Take(d, request) == gallerySeat' = [gallerySeat EXCEPT ![d] = request]

-----------------------------------------------------------------------------
Submit(s, u) ==
  /\ Len(builds) < MaxBuilds
  /\ builds' = Append(builds, [student |-> s, unit |-> u, verdict |-> "none"])
  /\ UNCHANGED <<projects, shown, gallerySeat>>

IssueVerdict(i, verdict) ==
  /\ builds[i].verdict = "none"
  /\ builds' = [builds EXCEPT ![i].verdict = verdict]
  /\ UNCHANGED <<projects, shown, gallerySeat>>

(* Faulty variant: whose submission it is does not matter.                 *)
CheckEligibleAnyones(d, s, i) ==
  /\ gallerySeat[d] = Open
  /\ builds[i].verdict = "pass"
  /\ Take(d, [op |-> "publish", student |-> s, build |-> i])
  /\ UNCHANGED <<builds, projects, shown>>

(* publish_gallery_project: one's own submission, with a passing verdict ... *)
CheckEligible(d, s, i) ==
  /\ gallerySeat[d] = Open
  /\ builds[i].student = s /\ builds[i].verdict = "pass"
  /\ Take(d, [op |-> "publish", student |-> s, build |-> i])
  /\ UNCHANGED <<builds, projects, shown>>

ProjectOf(s, u) == {p \in DOMAIN projects : projects[p].student = s /\ projects[p].unit = u}

(* ... becomes the student's project of the unit, new or in place of the one *)
(* there is, with its event.                                               *)
StoreProject(d) ==
  LET r   == gallerySeat[d]
      u   == builds[r.build].unit
      row == [student |-> r.student, unit |-> u, build |-> r.build, published |-> TRUE]
      old == ProjectOf(r.student, u)
  IN /\ r.op = "publish" /\ Len(shown) < MaxShows
     /\ projects' = IF old = {} THEN Append(projects, row)
                    ELSE [p \in DOMAIN projects |-> IF p \in old THEN row ELSE projects[p]]
     /\ shown' = Append(shown, [project |-> IF old = {} THEN Len(projects) + 1 ELSE CHOOSE p \in old : TRUE,
                                build |-> r.build, published |-> TRUE])
     /\ Take(d, Open)
     /\ UNCHANGED builds

(* unpublish_gallery_project: by its id or its unit, the owner's ...       *)
FindProject(d, s, p) ==
  /\ gallerySeat[d] = Open /\ projects[p].student = s
  /\ Take(d, [op |-> "unpublish", project |-> p])
  /\ UNCHANGED <<builds, projects, shown>>

(* ... is hidden, hidden before or not, and the event written.             *)
HideProject(d) ==
  LET p == gallerySeat[d].project
  IN /\ gallerySeat[d].op = "unpublish" /\ Len(shown) < MaxShows
     /\ projects' = [projects EXCEPT ![p].published = FALSE]
     /\ shown' = Append(shown, [project |-> p, build |-> projects[p].build, published |-> FALSE])
     /\ Take(d, Open)
     /\ UNCHANGED builds

(* list_gallery_projects: published ones only, newest first, a page of at   *)
(* least one and at most Most of them; the total is a column of the rows,   *)
(* and 0 when there is none.                                               *)
Published   == {p \in DOMAIN projects : projects[p].published}
NewestFirst == [n \in 1 .. Cardinality(Published) |->
                  CHOOSE p \in Published : Cardinality({q \in Published : p < q}) = n - 1]

Bounded(low, n, high) == IF n < low THEN low ELSE IF n > high THEN high ELSE n

GalleryPage(limit, offset) ==
  LET from == IF offset < 0 THEN 0 ELSE offset
      to   == Bounded(0, from + Bounded(1, limit, Most), Len(NewestFirst))
      page == [n \in 1 .. to - from |-> NewestFirst[from + n]]
  IN [projects |-> page, total |-> IF page = <<>> THEN 0 ELSE Len(NewestFirst)]

(* get_gallery_project and get_student_gallery_projects show hidden ones;    *)
(* without a verdict they would say "pass".                                *)
ProjectDetail(p) ==
  [build   |-> projects[p].build, published |-> projects[p].published,
   overall |-> LET v == builds[projects[p].build].verdict IN IF v = "none" THEN "pass" ELSE v]
StudentProjects(s) == {p \in DOMAIN projects : projects[p].student = s}
ProjectOfBuild(i)  == {p \in DOMAIN projects : projects[p].build = i}

GalleryNext ==
  \/ \E s \in Builder, u \in Unit : Submit(s, u)
  \/ \E i \in DOMAIN builds, verdict \in {"pass", "fail"} : IssueVerdict(i, verdict)
  \/ \E d \in GallerySeat :
       \/ \E s \in Builder, i \in DOMAIN builds : CheckEligible(d, s, i)
       \/ \E s \in Builder, p \in DOMAIN projects : FindProject(d, s, p)
       \/ StoreProject(d) \/ HideProject(d)

GallerySpec == GalleryInit /\ [][GalleryNext]_galleryVars

-----------------------------------------------------------------------------
(* What any page shows is real: a submission of that very student for that   *)
(* unit, passed; a student has one project per unit, shown or hidden as its *)
(* last event says, with the submission that was published last.  And who   *)
(* turns the pages, however small, sees each published project once.        *)
GalleryVerified ==
  /\ \A p \in DOMAIN projects :
       LET b    == builds[projects[p].build]
           past == {i \in DOMAIN shown : shown[i].project = p}
           last == CHOOSE i \in past : \A j \in past : j <= i
       IN /\ b.student = projects[p].student /\ b.unit = projects[p].unit
          /\ ProjectDetail(p).overall = "pass" /\ b.verdict = "pass"
          /\ ProjectOf(projects[p].student, projects[p].unit) = {p}
          /\ past # {} /\ shown[last].published = projects[p].published
          /\ shown[last].build = projects[p].build
  /\ \A limit \in 0..Most + 1 :
       LET step == Bounded(1, limit, Most)
           seen == [n \in 0..Len(projects) |-> GalleryPage(limit, n * step).projects]
       IN \A p \in DOMAIN projects :
            Cardinality({n \in DOMAIN seen : \E i \in DOMAIN seen[n] : seen[n][i] = p})
              = (IF projects[p].published THEN 1 ELSE 0)
=============================================================================
