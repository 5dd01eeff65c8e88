SPECIFICATION MCSpec
CONSTANTS
  Users = {u1, u2, u3}
  Goers = {u2}
  Creator = u1
  Links = {l1, l2}
  Requests = {r1, r2}
  None = None
  Me = me
  n1 = n1
  n2 = n2
  n3 = n3
  People <- MCPeople
  Attendees <- MCAttendees
  Joining <- MCJoining
  PageSize = 2
  Invites = {1, 2}
  Visits <- MCVisits
  Stored = {6, 7}
  Pictures = {1, 2, 3, 4, 5}
  BadPictures = {5}
  MaxAttempts = 2
  Tasks <- MCTasks
  Types <- MCTypes
  Majors <- MCMajors
  Levels <- MCLevels
  LastYear = 2
  Today = 2
  Size = 1
  InitRows <- MCRows
  OppVisits <- MCOppVisits
CHECK_DEADLOCK FALSE
INVARIANTS
  RowsAgree OneByOne PageTellsOneStory SavesAreTrue 
PROPERTIES
  ImagesAppear
