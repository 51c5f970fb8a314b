CONSTANTS
  Addresses <- Servers
  Digits <- PortDigits
  Nul = "nul"
  BufLen = 5
  Junk <- Dirty
  NoAddress = NoAddress
  FaultSets <- WhatGoesWrong
  MaxChanges = 3
SPECIFICATION Spec
CHECK_DEADLOCK FALSE
INVARIANTS
  TypeOK
  NewsNotLost
  WatchStaysSet
  OneLateCommand
PROPERTY FollowsPrimary
