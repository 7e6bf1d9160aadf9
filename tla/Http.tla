--------------------------------- MODULE Http ---------------------------------
(***************************************************************************)
(* What hal::network::httpGet() and httpPost() can return, network_s3.cpp  *)
(* and network_p4.cpp.  A response is its status and whether it has a      *)
(* body; what is in the body is up to the one who parses it.               *)
(***************************************************************************)
EXTENDS Integers

\* 500 stands for every status but 200.
Statuses == {200, 500}

\* struct HttpResponse as both functions begin it
NoAnswer == [status |-> -1, body |-> FALSE]

\* httpGet() on the S3: without WiFi nothing is sent.  An answer whose body finds no memory
\* has its status all the same.
GetS3(connected) ==
  {NoAnswer} \cup (IF connected THEN [status : Statuses, body : BOOLEAN] ELSE {})

\* httpGet() on the P4, which does not ask for WiFi: no buffer, no client and a request that
\* fails are no answer; an answer has the buffer, even an empty one.
GetP4 == {NoAnswer} \cup [status : Statuses, body : {TRUE}]

\* httpPost(): the same with something to send.  A request that fails may have arrived.
PostS3(connected) == GetS3(connected)
PostP4 == GetP4

HttpGet(connected)  == GetS3(connected) \cup GetP4
HttpPost(connected) == PostS3(connected) \cup PostP4

\* `resp.status == 200 && resp.body`, the test of both callers
Usable(resp) == resp.status = 200 /\ resp.body
===============================================================================
