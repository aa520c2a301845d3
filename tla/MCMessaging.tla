----------------------------- MODULE MCMessaging -----------------------------
EXTENDS Messaging, TLC

MCLastDay == -1

MCEnvironments ==
  {{"broadcast", "overlap", "month"},
   {"broadcast", "dues", "consent"},
   {"broadcast", "overlap", "lapse", "month", "crash"},
   {"broadcast", "member", "instances", "lost_answer"},
   {"announce", "consent", "overlap", "crash"},
   {"announce", "member", "overlap", "lost_answer"},
   {"remind", "consent"},
   {"remind", "instances", "crash", "lost_answer"},
   {"menu", "member", "overlap"},
   {"menu", "broadcast", "overlap", "unreadable"},
   {"announce", "unreadable"},
   {"remind", "unreadable"}}

MCMenu == {{"menu"}}
=============================================================================
