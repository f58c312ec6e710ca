------------------------------- MODULE Answers -------------------------------
(***************************************************************************)
(* What a request is answered when its transaction fails.  The database    *)
(* client returns an error; the adapter translates those it knows into the *)
(* errors of the API; the handler turns these into a status code.  An      *)
(* error that no layer knows is an internal error.                         *)
(*                                                                         *)
(*   client:   limit, role, owner, no row, no channel, other               *)
(*   API:      maximum, not authorized, no entity, or the client's         *)
(***************************************************************************)

Codes == {0, 200, 201, 204, 400, 403, 404, 429, 500}

\* Adapters

CreateUserSavedSearchError(e) == IF e = "limit" THEN "maximum" ELSE e

RoleOrRow(e) ==
    CASE e = "role" -> "not authorized" [] e = "no row" -> "no entity" [] OTHER -> e

UpdateUserSavedSearchError(e) == RoleOrRow(e)
DeleteUserSavedSearchError(e) == RoleOrRow(e)
GetSavedSearchError(e) == IF e = "no row" THEN "no entity" ELSE e

PutBookmarkError(e) ==
    CASE e = "limit" -> "maximum" [] e = "no row" -> "no entity" [] OTHER -> e

RemoveBookmarkError(e) ==
    CASE e = "owner" -> "not authorized" [] e = "no row" -> "no entity" [] OTHER -> e

CreateChannelError(e) == IF e = "limit" THEN "maximum" ELSE e

\* Of the update itself: that the channel is gone is not translated.
UpdateChannelError(e) == RoleOrRow(e)

GetChannelError(e) == IF e = "no channel" THEN "no entity" ELSE RoleOrRow(e)
DeleteChannelError(e) == IF e = "no channel" THEN "no entity" ELSE RoleOrRow(e)

\* Neither a channel nor a search that is missing is translated.
CreateSubscriptionError(e) ==
    CASE e = "role" -> "not authorized" [] e = "limit" -> "maximum" [] OTHER -> e

UpdateSubscriptionError(e) == RoleOrRow(e)
DeleteSubscriptionError(e) == RoleOrRow(e)

\* Handlers

CreateSavedSearchStatus(e) ==
    CASE e = "none" -> 201 [] e = "maximum" -> 403 [] OTHER -> 500

Usual(e, success) ==
    CASE e = "none" -> success
      [] e = "not authorized" -> 403
      [] e = "no entity" -> 404
      [] OTHER -> 500

UpdateSavedSearchStatus(e) == Usual(e, 200)
RemoveSavedSearchStatus(e) == Usual(e, 204)

PutBookmarkStatus(e) ==
    CASE e = "none" -> 200 [] e = "maximum" -> 403 [] e = "no entity" -> 404
      [] OTHER -> 500

RemoveBookmarkStatus(e) == Usual(e, 204)

CreateChannelStatus(e) ==
    CASE e = "none" -> 201 [] e = "maximum" -> 429 [] OTHER -> 500

\* A channel that does not exist is an internal error here.
UpdateChannelStatus(e) ==
    CASE e = "none" -> 200 [] e = "not authorized" -> 403 [] OTHER -> 500

\* Someone else's channel is a missing one.
DeleteChannelStatus(e) ==
    CASE e = "none" -> 204 [] e \in {"no entity", "not authorized"} -> 404
      [] OTHER -> 500

CreateSubscriptionStatus(e) ==
    CASE e = "none" -> 201 [] e \in {"not authorized", "maximum"} -> 403
      [] OTHER -> 500

UpdateSubscriptionStatus(e) == Usual(e, 200)
DeleteSubscriptionStatus(e) == Usual(e, 204)
=============================================================================
