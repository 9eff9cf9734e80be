------------------------------- MODULE MCConsole -------------------------------
EXTENDS Console, TLC

CONSTANTS ann, bob, small, large, ours, nobodys, helper, front, side, manuals, prices,
          desk, night, first, second, phone, kept, fresh, left, right

(* Which use cases are run together: those that read or write the same rows. *)
Offering == {"create_model", "update_model", "archive_model", "restore_model", "grant_model",
             "revoke_model", "create_assistant", "update_assistant"}
Credentials == {"store_key", "rotate_key", "revoke_key", "attach_key", "detach_key", "revoke_model"}
Sharing == {"publish_assistant", "archive_assistant", "show_assistant", "give_access",
            "take_access", "update_assistant", "start"}
Quotas == {"set_plan", "create_base", "create_widget", "delete_base", "turn_chatbot_on"}
WidgetEdits == {"update_widget", "enable_widget", "disable_widget", "present_widget",
                "delete_widget", "visit", "set_plan"}
Rated == {"rate_chat", "rate", "disable_widget", "delete_widget", "visit"}
Configured == {"turn_chatbot_on", "turn_chatbot_off", "set_behaviour", "set_plan"}
Staffed == {"list_teams", "save_team", "notify", "subscribe", "unsubscribe"}
Talked == {"append", "recall", "rename", "delete", "purge"}
Everything == Offering \cup Credentials \cup Sharing \cup Quotas \cup WidgetEdits \cup Rated
                  \cup Configured \cup Staffed \cup Talked

(* `late` is a tenant some time on: what it may create is there, a model    *)
(* and a key are no longer offered, a visitor has written, a conversation   *)
(* has as many messages as are kept unfolded and was last used long ago.    *)
Database(late) ==
    [r \in ConsoleRows |->
        CASE r[1] = "model"     -> [there |-> late \/ r[2] = small, archived |-> late /\ r[2] = large,
                                    name |-> 0]
          [] r[1] = "grant" -> [there |-> late \/ r[2] = small, key |-> nobodys]
          [] r[1] = "key"       -> [there |-> late, revoked |-> FALSE, secret |-> 0]
          [] r[1] = "assistant" -> [status |-> IF late THEN "published" ELSE "absent", owner |-> ann,
                                    model |-> small, audience |-> {bob}, name |-> 0]
          [] r[1] = "access"    -> "none"
          [] r = Plan           -> [widgets |-> 1, bases |-> 1, daily |-> 1]
          [] r = Settings       -> [there |-> late, on |-> TRUE, limit |-> 1, persona |-> 0]
          [] r[1] = "widget"    -> [there |-> late /\ r[2] = front, on |-> late /\ r[2] = front,
                                    base |-> manuals, cap |-> 1, name |-> 0, look |-> 0]
          [] r[1] = "base"      -> [there |-> r[2] = manuals]
          [] r[1] = "team"      -> [there |-> late /\ r[2] = desk, active |-> TRUE, name |-> "Support"]
          [] r[1] = "rating"    -> "none"
          [] r[1] = "conversation" -> [there |-> late /\ r[2] = kept,
                                       owner |-> IF late /\ r[2] = kept THEN ann ELSE Nobody, title |-> 0,
                                       recent |-> FALSE, folded |-> {}, through |-> 0]
          [] r[1] = "message"   -> late /\ r[2] = kept /\ r[3] <= CompactAfter
          [] OTHER              -> late /\ r \in {Roster(desk, ann), Browser(ann, phone)}]

(* Three requests where three are few enough, two elsewhere. *)
Scene(late, k, already) == [rows |-> Database(late), runs |-> k, already |-> already]
McScenes ==
    {Scene(FALSE, k, 1) : k \in {Offering, Quotas, Configured, Staffed}}
        \cup {Scene(TRUE, k, 1) : k \in {Sharing, WidgetEdits, Staffed}}
        \cup {Scene(TRUE, k, 0) : k \in {Offering, Credentials, Rated, Configured, Talked}}
        \cup {Scene(FALSE, Credentials, 0)}
Symmetric == Permutations(Requests)

=============================================================================
