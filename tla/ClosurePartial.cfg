SPECIFICATION ClosureSpec
CONSTANTS
  Agents = {"s1", "s2"}
  Roles <- ScansAndRequests
  Settings = {"require_scanner_success", "close_issues", "close_verified"}
  Circumstances = {"partial"}
  MaxRows = 1
  MaxFaults = 0
PROPERTIES ClosedOnEvidence
