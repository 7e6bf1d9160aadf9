------------------------------- MODULE MCScreens -------------------------------
(* A small instance of Screens for TLC.  A device of a user is served every source; when *)
(* its entry in the configuration is taken away, those of all users only.  The adapter   *)
(* of Google is not cached under the key that the dashboard reads, and nothing is served *)
(* as monday_tasks.  The bounds cut off an event, a task, a repository and a project.    *)
EXTENDS Screens, TLC

Missing == [status |-> "missing", data |-> Null]

Ok(d) == [status |-> "ok", data |-> d]

Stale(d) == [status |-> "stale", data |-> d]

Event(title, day, start, end) == [title |-> title, day |-> day, start |-> start, end |-> end]

Task(title, priority) == [title |-> title, priority |-> priority, source |-> "unfocused"]

Repo(name, ci_status, created) ==
  [name |-> name, ci_status |-> ci_status, issues |-> 300, ci |-> <<"build", "deploy">>,
   prs |-> <<[draft |-> TRUE, created |-> created]>>]

\* poll() failed for one repository: the parser finds none of the fields.
Unanswered(name) ==
  [name |-> name, ci_status |-> "", issues |-> 0, ci |-> <<>>, prs |-> <<>>]

Weather(sky, hours, days) == [current |-> sky, hourly |-> hours, daily |-> days]

Project(name, open, error) == [name |-> name, open |-> open, blocked |-> 1, error |-> error]

\* Two meetings of today pushed out of order, one of a whole day and one of tomorrow.
Morning ==
  "google_calendar" :> Missing
  @@ "calendar_ms" :> Ok(<<Event("review", 10, 840, 900), Event("standup", 10, 540, 555),
                           Event("holiday", 10, 0, 0), Event("lunch", 10, 720, 780),
                           Event("call", 11, 600, 630), Event("late", 10, 1200, 1230)>>)
  @@ "weather" :> Ok(Weather("sun", <<"h1", "h2", "h3">>, <<"d1", "d2">>))
  @@ "unfocused_tasks" :> Ok([tasks |-> <<Task("mow", "Low"), Task("pay", "High"),
                                          Task("read", Null), Task("call", "Medium"),
                                          Task("flee", "Critical")>>, deferred |-> 2])
  @@ "github" :> Ok(<<Repo("alpha", "passing", 1), Repo("beta", "failing", 9),
                      Repo("gamma", "pending", 9)>>)
  @@ "citadel" :> Ok([open |-> 260, blocked |-> 1,
                      projects |-> <<Project("one", 2, TRUE), Project("two", 258, FALSE)>>])
  @@ "claude" :> Ok([status |-> "active", current_task |-> "build"])

\* The push has stopped, the weather adapter has yet to answer, and alpha has moved away.
Evening ==
  "google_calendar" :> Missing
  @@ "calendar_ms" :> Stale(<<Event("review", 10, 1080, 1140), Event("call", 11, 600, 630)>>)
  @@ "weather" :> Missing
  @@ "unfocused_tasks" :> Ok([tasks |-> <<Task("read", Null), Task("pay", "High")>>,
                              deferred |-> 0])
  @@ "github" :> Ok(<<Unanswered("beta"), Repo("gamma", "passing", 6)>>)
  @@ "citadel" :> Stale([open |-> 1, blocked |-> 0, projects |-> <<Project("one", 1, FALSE)>>])
  @@ "claude" :> Ok([status |-> "offline", current_task |-> ""])

\* _user_sources are not served, and the bridge has just been started.
Stranger == "calendar_ms" :> Missing @@ "claude" :> Missing

MCDocuments == {Morning, Evening, Stranger}

At(day, minute) == [day |-> day, minute |-> minute]

MCMoments == <<At(0, 0), At(10, 550), At(10, 1100), At(11, 30)>>

MCTours == {{"home", screen} : screen \in Lists} \cup {{"devops", "weather"}}
=============================================================================
