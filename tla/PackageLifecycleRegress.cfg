CONSTANTS
  t1 = t1
  t2 = t2
  None = None
  Packages = {1}
  Configured = {1}
  Certs = {1, 2}
  CertOf <- MCCertOf
  Posted = {"EXPIRED"}
  Threads = {t1, t2}
SPECIFICATION Spec
PROPERTY NonRegressive
